---- MODULE Spec2Model ----
(***************************************************************************)
(* CSV import of appointments: CSVHandler.validate_appointment_csv,        *)
(* CSVHandler.csv_to_appointment_data (src/csv_handler.py) and the bulk    *)
(* import loop of show_appointments_page (src/app.py).                     *)
(*                                                                         *)
(* A CSV cell is its text, a sequence of one-character strings; the empty  *)
(* sequence is an empty cell.  A Python dict is a TLA+ function whose      *)
(* DOMAIN is the dict's key set, so  'k' in d  is  "k" \in DOMAIN d.       *)
(* An Optional value is a sequence: <<>> for None, <<x>> for x.            *)
(***************************************************************************)
EXTENDS Integers, Sequences, FiniteSets, TLC

\* ------------------------------------------------------------------ bounds
\* Largest number of data rows of an uploaded file.
MaxRows == 2
\* Largest batch size the user picks (the widget allows MinBatch..100).
MaxBatch == 2

\* Appointments in one get_appointments response, bookings in one
\* appointment.
MaxAppts == 2

MaxBookings == 2

\* Calls of log_operation in a run of the log alone, and in one session of
\* the handlers.
MaxLogCalls == 102

MaxLogged == 2

\* Lines of the text area of a bulk operation.
MaxLines == 2

\* Program constants: the probes of init_api_client and the entries
\* log_operation keeps.
MaxRetries == 3

LogCap == 100
\* Smallest batch size the number_input accepts.
MinBatch == 1

\* ------------------------------------------------------- Python primitives
Digits == {"0", "1", "2", "3", "4", "5", "6", "7", "8", "9"}

DigitChars == <<"0", "1", "2", "3", "4", "5", "6", "7", "8", "9">>

DigitVal(c) == (CHOOSE i \in 1..10 : DigitChars[i] = c) - 1

\* str.isdigit(): non-empty and every character a digit.
IsDigitStr(s) == Len(s) > 0 /\ \A i \in 1..Len(s) : s[i] \in Digits

\* str.replace('.', '')
RemoveDots(s) == SelectSeq(s, LAMBDA c : c # ".")

\* The value of a digit string.
RECURSIVE DigitsVal(_)
DigitsVal(s) ==
    IF Len(s) = 0 THEN 0
    ELSE 10 * DigitsVal(SubSeq(s, 1, Len(s) - 1)) + DigitVal(s[Len(s)])

\* An integer literal: digits with an optional leading minus sign.
IsIntLit(s) ==
    \/ IsDigitStr(s)
    \/ Len(s) > 1 /\ s[1] = "-" /\ IsDigitStr(Tail(s))

\* Position of the first '.', or 0.
DotPos(s) == IF \E i \in 1..Len(s) : s[i] = "."
             THEN CHOOSE i \in 1..Len(s) : s[i] = "." /\ \A j \in 1..(i - 1) : s[j] # "."
             ELSE 0

\* A decimal literal: an integer literal, or one with a single fraction part.
IsFloatLit(s) ==
    \/ IsIntLit(s)
    \/ /\ DotPos(s) > 1
       /\ IsIntLit(SubSeq(s, 1, DotPos(s) - 1))
       /\ IsDigitStr(SubSeq(s, DotPos(s) + 1, Len(s)))

IntLitVal(s) == IF s[1] = "-" THEN 0 - DigitsVal(Tail(s)) ELSE DigitsVal(s)

\* ------------------------------------------------------------- the table
RequiredColumns == <<"booking_start", "service_id", "provider_id", "customer_id">>

IdColumns == <<"service_id", "provider_id", "customer_id">>

OptionalColumns == {"location_id", "persons", "duration", "status",
                    "internal_notes", "notify_participants", "custom_fields"}

AllColumns == {RequiredColumns[i] : i \in 1..Len(RequiredColumns)} \cup OptionalColumns

\* pandas.read_csv column type inference: a column of integer literals is
\* int64, of decimal literals (or integers with empty cells) float64,
\* anything else object; an all-empty column is float64 (all NaN).
ColType(df, col) ==
    LET cells == {df.rows[i][col] : i \in 1..Len(df.rows)}
        filled == {c \in cells : c # <<>>}
    IN  IF filled = {} THEN "float"
        ELSE IF \A c \in filled : IsIntLit(c)
             THEN (IF <<>> \in cells THEN "float" ELSE "int")
        ELSE IF \A c \in filled : IsFloatLit(c) THEN "float"
        ELSE "object"

\* The Python value of a cell as the row Series holds it.
\*   [t |-> "nan"]                       an empty cell (NaN)
\*   [t |-> "int",   s |-> literal]      numpy int64
\*   [t |-> "float", s |-> literal]      numpy float64 (s is str(value))
\*   [t |-> "str",   s |-> text]         str
CellValue(df, i, col) ==
    LET c == df.rows[i][col]
    IN  IF c = <<>> THEN [t |-> "nan", s |-> <<"n", "a", "n">>]
        ELSE IF ColType(df, col) = "int" THEN [t |-> "int", s |-> c]
        ELSE IF ColType(df, col) = "float"
             THEN [t |-> "float", s |-> IF DotPos(c) = 0 THEN c \o <<".", "0">> ELSE c]
        ELSE [t |-> "str", s |-> c]

\* One row of df.iterrows(): column -> Python value.
RowSeries(df, i) == [col \in df.columns |-> CellValue(df, i, col)]

\* pd.notna(v); row.get(col) of an absent column is None, which is not "notna".
NotNa(v) == v.t \notin {"nan", "none"}

\* str(v)
PyStr(v) == v.s

\* int(v): <<n>> when it returns n, <<>> when it raises ValueError.
PyInt(v) ==
    IF v.t = "nan" THEN <<>>
    ELSE IF v.t = "int" THEN <<IntLitVal(v.s)>>
    ELSE IF v.t = "float" THEN <<IntLitVal(SubSeq(v.s, 1, DotPos(v.s) - 1))>>
    ELSE IF IsIntLit(v.s) THEN <<IntLitVal(v.s)>>
    ELSE <<>>

\* ------------------------------------------------------------ date-times
\* Characters i..j of s as a number, or -1 when they are not all digits.
NumAt(s, i, j) ==
    IF j <= Len(s) /\ IsDigitStr(SubSeq(s, i, j)) THEN DigitsVal(SubSeq(s, i, j)) ELSE 0 - 1

IsLeap(y) == (y % 4 = 0 /\ y % 100 # 0) \/ y % 400 = 0

DaysIn(y, m) ==
    IF m = 2 THEN (IF IsLeap(y) THEN 29 ELSE 28)
    ELSE IF m \in {4, 6, 9, 11} THEN 30 ELSE 31

\* The text forms of the files this model reads: YYYY-MM-DD, optionally
\* followed by a space and HH:MM, optionally followed by :SS.
DateShape(s) ==
    /\ Len(s) \in {10, 16, 19}
    /\ s[5] = "-" /\ s[8] = "-"
    /\ Len(s) >= 16 => (s[11] = " " /\ s[14] = ":")
    /\ Len(s) = 19 => s[17] = ":"

ParseDate(s) ==
    LET y  == NumAt(s, 1, 4)
        mo == NumAt(s, 6, 7)
        d  == NumAt(s, 9, 10)
        h  == IF Len(s) >= 16 THEN NumAt(s, 12, 13) ELSE 0
        mi == IF Len(s) >= 16 THEN NumAt(s, 15, 16) ELSE 0
        se == IF Len(s) = 19 THEN NumAt(s, 18, 19) ELSE 0
    IN  IF /\ DateShape(s)
           /\ y >= 1 /\ mo \in 1..12 /\ d >= 1 /\ d <= DaysIn(y, mo)
           /\ h \in 0..23 /\ mi \in 0..59 /\ se \in 0..59
        THEN <<[nat |-> FALSE, year |-> y, month |-> mo, day |-> d, hour |-> h, minute |-> mi]>>
        ELSE <<>>

\* pd.to_datetime(v): <<timestamp>>, or <<>> when it raises.  An empty cell
\* gives NaT without raising; a number is nanoseconds since the epoch.
ToDatetime(v) ==
    IF v.t \in {"nan", "none"}
    THEN <<[nat |-> TRUE, year |-> 0, month |-> 0, day |-> 0, hour |-> 0, minute |-> 0]>>
    ELSE IF v.t \in {"int", "float"}
    THEN <<[nat |-> FALSE, year |-> 1970, month |-> 1, day |-> 1, hour |-> 0, minute |-> 0]>>
    ELSE ParseDate(v.s)

\* n as w decimal digits, zero padded.
RECURSIVE Pad(_, _)
Pad(n, w) == IF w = 0 THEN <<>> ELSE Pad(n \div 10, w - 1) \o <<DigitChars[(n % 10) + 1]>>

\* ts.strftime('%Y-%m-%d %H:%M'): <<text>>, or <<>> when it raises (NaT).
Strftime(ts) ==
    IF ts.nat THEN <<>>
    ELSE <<Pad(ts.year, 4) \o <<"-">> \o Pad(ts.month, 2) \o <<"-">> \o Pad(ts.day, 2)
           \o <<" ">> \o Pad(ts.hour, 2) \o <<":">> \o Pad(ts.minute, 2)>>

\* ------------------------------------------------------------ validation
\* Variant: only the first missing column is reported.
MissingCols_FirstOnly(df) ==
    LET missing == SelectSeq(RequiredColumns, LAMBDA c : c \notin df.columns)
    IN  IF missing = <<>> THEN <<>> ELSE <<Head(missing)>>

\* [col for col in required_columns if col not in df.columns]
MissingCols(df) == SelectSeq(RequiredColumns, LAMBDA c : c \notin df.columns)

MissingMsg(cols) == [text |-> "Missing required columns", row_num |-> 0, cols |-> cols]

DateMsg(row_num) ==
    [text |-> "Invalid date format in booking_start", row_num |-> row_num,
     cols |-> <<"booking_start">>]

NumericMsg(row_num, col) ==
    [text |-> "must be numeric", row_num |-> row_num, cols |-> <<col>>]

\* idx + 2  # +2 for header and 0-indexing   (idx is the 0-based index label)
RowNum(idx) == idx + 2

\* The check of one id column: pd.notna(v) and not str(v).replace('.', '').isdigit()
IdCheckFails(v) == NotNa(v) /\ ~IsDigitStr(RemoveDots(PyStr(v)))

\* The check of booking_start: pd.to_datetime(v) raises.
DateCheckFails(v) == ToDatetime(v) = <<>>

\* The inner loop over the id columns of one row.
RECURSIVE IdErrors(_, _, _)
IdErrors(row, row_num, k) ==
    IF k > Len(IdColumns) THEN <<>>
    ELSE (IF IdCheckFails(row[IdColumns[k]]) THEN <<NumericMsg(row_num, IdColumns[k])>> ELSE <<>>)
         \o IdErrors(row, row_num, k + 1)

\* The errors one row appends.
RowErrors(df, i) ==
    LET row == RowSeries(df, i)
        row_num == RowNum(i - 1)
    IN  (IF DateCheckFails(row["booking_start"]) THEN <<DateMsg(row_num)>> ELSE <<>>)
        \o IdErrors(row, row_num, 1)

\* for idx, row in df.iterrows(): rows i..len(df), appended to errors.
RECURSIVE ValidateRows(_, _, _)
ValidateRows(df, i, errors) ==
    IF i > Len(df.rows) THEN errors
    ELSE ValidateRows(df, i + 1, errors \o RowErrors(df, i))

\* CSVHandler.validate_appointment_csv(df) -> (is_valid, errors)
validate_appointment_csv(df) ==
    IF MissingCols(df) # <<>>
    THEN [is_valid |-> FALSE, errors |-> <<MissingMsg(MissingCols(df))>>]
    ELSE LET errs == ValidateRows(df, 1, <<>>)
         IN  [is_valid |-> Len(errs) = 0, errors |-> errs]

\* ------------------------------------------------------------- transform
\* Python values used as defaults of row.get(col, default).
PyNone == [t |-> "none", s |-> <<"N", "o", "n", "e">>]

PyIntObj(lit) == [t |-> "int", s |-> lit]

PyStrObj(text) == [t |-> "str", s |-> text]

\* row.get(col, default)
RowGet(row, col, default) == IF col \in DOMAIN row THEN row[col] ELSE default

Letters == {"a", "b", "c", "k", "n", "o", "t", "e", "s"}

\* json.loads(s) for the documents this model reads: an integer, the empty
\* object, or an object of one string key and one integer value.
\* <<value>>, or <<>> when it raises.
JsonLoads(s) ==
    IF IsIntLit(s) THEN <<[json |-> "number", n |-> IntLitVal(s), key |-> <<>>]>>
    ELSE IF s = <<"{", "}">> THEN <<[json |-> "object", n |-> 0, key |-> <<>>]>>
    ELSE IF /\ Len(s) >= 7
            /\ s[1] = "{" /\ s[2] = "\"" /\ s[Len(s)] = "}"
            /\ \E q \in 4..(Len(s) - 3) :
                  /\ s[q] = "\"" /\ s[q + 1] = ":"
                  /\ \A j \in 3..(q - 1) : s[j] \in Letters
                  /\ IsIntLit(SubSeq(s, q + 2, Len(s) - 1))
    THEN LET q == CHOOSE q \in 4..(Len(s) - 3) : s[q] = "\"" /\ s[q + 1] = ":"
         IN  <<[json |-> "object", n |-> IntLitVal(SubSeq(s, q + 2, Len(s) - 1)),
                key |-> SubSeq(s, 3, q - 1)]>>
    ELSE <<>>

\* Variant: a cell that does not decode is stored as it is.
CustomFields_KeepsRaw(row) ==
    LET v == RowGet(row, "custom_fields", PyNone)
    IN  IF ~NotNa(v) THEN <<>>
        ELSE IF v.t = "str"
        THEN (IF JsonLoads(v.s) = <<>> THEN <<[json |-> "raw", n |-> 0, key |-> v.s]>>
              ELSE JsonLoads(v.s))
        ELSE <<[json |-> "number", n |-> PyInt(v)[1], key |-> <<>>]>>

\* The value stored as customFields, or <<>> when the key is not set:
\* json.loads(v) if isinstance(v, str) else v, with every exception passed.
CustomFields(row) ==
    LET v == RowGet(row, "custom_fields", PyNone)
    IN  IF ~NotNa(v) THEN <<>>
        ELSE IF v.t = "str" THEN JsonLoads(v.s)
        ELSE <<[json |-> "number", n |-> PyInt(v)[1], key |-> <<>>]>>

\* int(row.get(col, 0)) if pd.notna(row.get(col)) else None, as
\* [raised, value]: value is <<>> for None and <<n>> for n.
OptionalInt(row, col) ==
    IF ~NotNa(RowGet(row, col, PyNone)) THEN [raised |-> FALSE, value |-> <<>>]
    ELSE [raised |-> PyInt(row[col]) = <<>>, value |-> PyInt(row[col])]

\* Variant: the booking's customer is read from the service_id cell.
Booking_WrongId(row) ==
    [customerId |-> PyInt(row["service_id"])[1],
     persons    |-> PyInt(RowGet(row, "persons", PyIntObj(<<"1">>)))[1],
     status     |-> PyStr(RowGet(row, "status",
                            PyStrObj(<<"a", "p", "p", "r", "o", "v", "e", "d">>))),
     extras     |-> <<>>,
     duration   |-> OptionalInt(row, "duration").value]

\* The first booking of the payload; the key customFields is set only when
\* the cell decoded.
Booking(row) ==
    LET base == [customerId |-> PyInt(row["customer_id"])[1],
                 persons    |-> PyInt(RowGet(row, "persons", PyIntObj(<<"1">>)))[1],
                 status     |-> PyStr(RowGet(row, "status",
                                        PyStrObj(<<"a", "p", "p", "r", "o", "v", "e", "d">>))),
                 extras     |-> <<>>,
                 duration   |-> OptionalInt(row, "duration").value]
    IN  IF CustomFields(row) = <<>> THEN base
        ELSE base @@ [customFields |-> CustomFields(row)[1]]

\* Whether building the payload raises: a required column is absent
\* (KeyError), booking_start does not parse or is NaT, or an int() fails.
TransformRaises(row) ==
    \/ "booking_start" \notin DOMAIN row
    \/ ToDatetime(row["booking_start"]) = <<>>
    \/ Strftime(ToDatetime(row["booking_start"])[1]) = <<>>
    \/ \E k \in 1..Len(IdColumns) :
          IdColumns[k] \notin DOMAIN row \/ PyInt(row[IdColumns[k]]) = <<>>
    \/ OptionalInt(row, "location_id").raised
    \/ PyInt(RowGet(row, "notify_participants", PyIntObj(<<"1">>))) = <<>>
    \/ PyInt(RowGet(row, "persons", PyIntObj(<<"1">>))) = <<>>
    \/ OptionalInt(row, "duration").raised

\* CSVHandler.csv_to_appointment_data(row): [raised, payload], payload being
\* <<appointment_data>> when the call returns and <<>> when it raises.
csv_to_appointment_data(row) ==
    IF TransformRaises(row) THEN [raised |-> TRUE, payload |-> <<>>]
    ELSE [raised |-> FALSE,
          payload |-> <<[
              bookingStart       |-> Strftime(ToDatetime(row["booking_start"])[1])[1],
              serviceId          |-> PyInt(row["service_id"])[1],
              providerId         |-> PyInt(row["provider_id"])[1],
              locationId         |-> OptionalInt(row, "location_id").value,
              notifyParticipants |-> PyInt(RowGet(row, "notify_participants",
                                                  PyIntObj(<<"1">>)))[1],
              internalNotes      |-> PyStr(RowGet(row, "internal_notes", PyStrObj(<<>>))),
              bookings           |-> <<Booking(row)>>]>>]

\* ------------------------------------------------------ uploaded files
DateTimeCell == <<"2", "0", "2", "4", "-", "1", "2", "-", "1", "5", " ", "1", "0", ":", "0", "0">>

DateOnlyCell == <<"2", "0", "2", "4", "-", "1", "2", "-", "1", "5">>

NotADateCell == <<"n", "o", "t", "-", "a", "-", "d", "a", "t", "e">>

CsvRow(bs, sid, pid, cid, persons) ==
    [booking_start |-> bs, service_id |-> sid, provider_id |-> pid, customer_id |-> cid,
     persons |-> persons]

\* The data rows the files given to the validator are made of.
RowPool ==
    { CsvRow(DateTimeCell, <<"1">>, <<"1">>, <<"1", "0">>, <<"2">>),
      CsvRow(DateOnlyCell, <<"2">>, <<"1">>, <<"1", "0">>, <<>>),
      CsvRow(<<>>, <<"1">>, <<"1">>, <<"1", "0">>, <<"1">>),
      CsvRow(DateTimeCell, <<>>, <<"1">>, <<"1", "0">>, <<"1">>),
      CsvRow(DateTimeCell, <<"1", ".", "2", ".", "3">>, <<"1">>, <<"1", "0">>, <<"1">>),
      CsvRow(DateTimeCell, <<"1", ".", "5">>, <<"1">>, <<"1", "0">>, <<"1">>),
      CsvRow(NotADateCell, <<"1">>, <<"1">>, <<"1", "0">>, <<"1">>),
      CsvRow(DateTimeCell, <<"a", "b", "c">>, <<"1">>, <<"1", "0">>, <<"1">>),
      CsvRow(DateTimeCell, <<"1">>, <<"1">>, <<"-", "1">>, <<"1">>),
      CsvRow(NotADateCell, <<"1">>, <<"x">>, <<"1", "0">>, <<"1">>) }

\* The data rows the imported files are made of: two rows that pass
\* validation and transform (the second not when the persons column is
\* read), one that passes validation with an empty service_id, and two that
\* fail validation.
ImportPool ==
    { CsvRow(DateTimeCell, <<"1">>, <<"1">>, <<"1", "0">>, <<"2">>),
      CsvRow(DateOnlyCell, <<"2">>, <<"1">>, <<"1", "0">>, <<>>),
      CsvRow(DateTimeCell, <<>>, <<"1">>, <<"1", "0">>, <<"1">>),
      CsvRow(NotADateCell, <<"1">>, <<"1">>, <<"1", "0">>, <<"1">>),
      CsvRow(DateTimeCell, <<"a", "b", "c">>, <<"1">>, <<"1", "0">>, <<"1">>) }

\* A data row with every column of the import format.
FullRow(bs, sid, pid, cid, loc, persons, dur, status, notes, notify, custom) ==
    [booking_start |-> bs, service_id |-> sid, provider_id |-> pid, customer_id |-> cid,
     location_id |-> loc, persons |-> persons, duration |-> dur, status |-> status,
     internal_notes |-> notes, notify_participants |-> notify, custom_fields |-> custom]

\* The data rows given to csv_to_appointment_data alone.  The required cells
\* are well formed except in the last row; the optional cells are filled,
\* empty, zero, and (custom_fields) an object, the empty object, a number
\* and a text that is not JSON.
PayloadPool ==
    { FullRow(DateTimeCell, <<"1">>, <<"2">>, <<"1", "0">>, <<"3">>, <<"2">>, <<"6", "0">>,
              <<"p", "e", "n", "d", "i", "n", "g">>, <<"n", "o", "t", "e">>, <<"0">>,
              <<"{", "\"", "k", "\"", ":", "1", "}">>),
      FullRow(DateOnlyCell, <<"2">>, <<"1">>, <<"1", "1">>, <<>>, <<>>, <<>>,
              <<>>, <<>>, <<>>, <<>>),
      FullRow(DateTimeCell, <<"1">>, <<"1">>, <<"1", "0">>, <<"0">>, <<"1">>, <<"0">>,
              <<"a", "p", "p", "r", "o", "v", "e", "d">>, <<>>, <<"1">>, <<"{", "}">>),
      FullRow(DateTimeCell, <<"3">>, <<"1">>, <<"1", "2">>, <<>>, <<"2">>, <<>>,
              <<>>, <<"n", "o", "t", "e">>, <<"1">>, <<"{", "b", "a", "d">>),
      FullRow(DateTimeCell, <<"1">>, <<"1">>, <<"1", "0">>, <<"3">>, <<"2">>, <<"6", "0">>,
              <<"p", "e", "n", "d", "i", "n", "g">>, <<>>, <<"1">>, <<"5">>),
      FullRow(DateTimeCell, <<"1">>, <<"1">>, <<>>, <<"3">>, <<"1">>, <<"6", "0">>,
              <<"p", "e", "n", "d", "i", "n", "g">>, <<>>, <<"1">>, <<"{", "}">>) }

RequiredSet == {RequiredColumns[i] : i \in 1..Len(RequiredColumns)}

\* The headers of the uploaded files: any non-empty choice of the required
\* columns, or all of them with the optional persons column.
ColumnSets == (SUBSET RequiredSet \ {{}}) \cup {RequiredSet \cup {"persons"}}

\* The headers of the files given to csv_to_appointment_data alone: the
\* required columns with a choice of the optional ones.
PayloadColumnSets ==
    {RequiredSet \cup opt : opt \in {{}, {"location_id", "duration"},
                                     {"persons", "status", "notify_participants"},
                                     {"custom_fields"}, {"internal_notes", "custom_fields"},
                                     OptionalColumns}}

\* The files with header cols: up to MaxRows rows of the pool.
Tables(cols, pool) ==
    UNION {[1..n -> {[c \in cols |-> r[c]] : r \in pool}] : n \in 0..MaxRows}

\* The delays the user picks: none, or one step of the widget.  The loop
\* reads delay_between only in  delay_between > 0.
Delays == {0, 1}

\* ------------------------------------------------- create_appointment
\* What api_client.create_appointment(appointment_data) returns: the parsed
\* JSON body, or the failure dict of _make_request.
PyDict(d) == [t |-> "dict", d |-> d]

OkResult == PyDict([data |-> [appointment |-> [id |-> 7]]])

FailResult == PyDict([error |-> "Timeout Error: Request took too long", success |-> FALSE])

ErrorAndDataResult == PyDict([error |-> "Slot taken", data |-> [appointment |-> [id |-> 7]]])

OddResult == PyDict([data |-> [message |-> "created"]])

\* A body of JSON null: response.json() is None.
NoneResult == [t |-> "none"]

Results == {OkResult, FailResult, ErrorAndDataResult, OddResult, NoneResult}

\* ------------------------------------------------------------- export
\* dict.get(key, default)
DictGet(d, key, default) == IF key \in DOMAIN d THEN d[key] ELSE default

EmptyStr == PyStrObj(<<>>)

EmptyDict == PyDict(<<>>)

PyNaN == [t |-> "nan", s |-> <<"n", "a", "n">>]

\* The row of an appointment without bookings.
AptRow(apt) ==
    [appointment_id  |-> DictGet(apt, "id", PyNone),
     booking_start   |-> DictGet(apt, "bookingStart", PyNone),
     booking_end     |-> DictGet(apt, "bookingEnd", PyNone),
     status          |-> DictGet(apt, "status", PyNone),
     service_id      |-> DictGet(apt, "serviceId", PyNone),
     provider_id     |-> DictGet(apt, "providerId", PyNone),
     location_id     |-> DictGet(apt, "locationId", PyNone),
     internal_notes  |-> DictGet(apt, "internalNotes", EmptyStr),
     customer_id     |-> PyNone,
     customer_name   |-> EmptyStr,
     customer_email  |-> EmptyStr,
     customer_phone  |-> EmptyStr,
     persons         |-> PyIntObj(<<"0">>),
     price           |-> PyIntObj(<<"0">>),
     payment_status  |-> EmptyStr,
     payment_gateway |-> EmptyStr]

\* booking.get('customer', {}) or {}
CustomerOf(booking) ==
    LET c == DictGet(booking, "customer", EmptyDict)
    IN  IF c.t = "none" \/ c.d = <<>> THEN <<>> ELSE c.d

\* payments[0] if payments else {}
PaymentOf(booking) ==
    LET payments == DictGet(booking, "payments", <<>>)
    IN  IF payments = <<>> THEN <<>> ELSE payments[1]

\* The row of one booking of an appointment.
BookingRow(apt, booking) ==
    [appointment_id      |-> DictGet(apt, "id", PyNone),
     booking_id          |-> DictGet(booking, "id", PyNone),
     booking_start       |-> DictGet(apt, "bookingStart", PyNone),
     booking_end         |-> DictGet(apt, "bookingEnd", PyNone),
     status              |-> DictGet(apt, "status", PyNone),
     booking_status      |-> DictGet(booking, "status", PyNone),
     service_id          |-> DictGet(apt, "serviceId", PyNone),
     provider_id         |-> DictGet(apt, "providerId", PyNone),
     location_id         |-> DictGet(apt, "locationId", PyNone),
     internal_notes      |-> DictGet(apt, "internalNotes", EmptyStr),
     customer_id         |-> DictGet(booking, "customerId", PyNone),
     customer_first_name |-> DictGet(CustomerOf(booking), "firstName", EmptyStr),
     customer_last_name  |-> DictGet(CustomerOf(booking), "lastName", EmptyStr),
     customer_email      |-> DictGet(CustomerOf(booking), "email", EmptyStr),
     customer_phone      |-> DictGet(CustomerOf(booking), "phone", EmptyStr),
     persons             |-> DictGet(booking, "persons", PyIntObj(<<"1">>)),
     price               |-> DictGet(booking, "price", PyIntObj(<<"0">>)),
     payment_status      |-> DictGet(PaymentOf(booking), "status", EmptyStr),
     payment_gateway     |-> DictGet(PaymentOf(booking), "gateway", EmptyStr),
     payment_amount      |-> DictGet(PaymentOf(booking), "amount", PyIntObj(<<"0">>)),
     duration            |-> DictGet(booking, "duration",
                                     DictGet(apt, "duration", PyIntObj(<<"0">>))),
     custom_fields       |-> DictGet(booking, "customFields", EmptyStr),
     token               |-> DictGet(booking, "token", EmptyStr)]

\* Variant: an appointment with bookings gives the row of its first booking
\* only.
ExportApt_FirstBookingOnly(apt) ==
    LET bookings == DictGet(apt, "bookings", <<>>)
    IN  IF bookings = <<>> THEN <<AptRow(apt)>> ELSE <<BookingRow(apt, bookings[1])>>

\* The rows of one appointment: one per booking, or one when `not bookings`.
ExportApt(apt) ==
    LET bookings == DictGet(apt, "bookings", <<>>)
    IN  IF bookings = <<>> THEN <<AptRow(apt)>>
        ELSE [j \in 1..Len(bookings) |-> BookingRow(apt, bookings[j])]

\* for apt in appointments: ... rows.append(row)
RECURSIVE ExportRows(_)
ExportRows(appointments) ==
    IF appointments = <<>> THEN <<>>
    ELSE ExportApt(Head(appointments)) \o ExportRows(Tail(appointments))

\* pd.DataFrame(rows) of a list of dicts: the columns are the keys of all
\* rows, a key a row lacks is NaN.
DataFrame(rows) ==
    LET cols == UNION {DOMAIN rows[i] : i \in 1..Len(rows)}
    IN  [columns |-> cols,
         rows |-> [i \in 1..Len(rows) |->
                      [c \in cols |-> IF c \in DOMAIN rows[i] THEN rows[i][c] ELSE PyNaN]]]

\* CSVHandler.export_appointments_to_csv(appointments_data)
export_appointments_to_csv(data) ==
    IF "data" \notin DOMAIN data \/ "appointments" \notin DOMAIN data.data
    THEN DataFrame(<<>>)
    ELSE DataFrame(ExportRows(data.data.appointments))

\* Variant: the rows of one appointment are written as one line.
dataframe_to_csv_download_Merged(frame) ==
    LET ids == {frame.rows[i]["appointment_id"] : i \in 1..Len(frame.rows)}
        first == {i \in 1..Len(frame.rows) :
                     \A j \in 1..(i - 1) :
                         frame.rows[j]["appointment_id"] # frame.rows[i]["appointment_id"]}
        kept == SelectSeq([i \in 1..Len(frame.rows) |-> i], LAMBDA i : i \in first)
    IN  [columns |-> frame.columns,
         rows |-> [r \in 1..Len(kept) |->
                      [c \in frame.columns |->
                          LET v == frame.rows[kept[r]][c]
                          IN  IF v.t \in {"none", "nan"} THEN <<>> ELSE v.s]]]

\* Whether pandas holds the column as float64: integers and missing values.
FloatColumn(frame, c) ==
    LET ts == {frame.rows[i][c].t : i \in 1..Len(frame.rows)}
    IN  "int" \in ts /\ ts \subseteq {"int", "none", "nan"} /\ ts # {"int"}

\* df.to_csv(index=False), as the cells pd.read_csv finds in the file: a
\* missing value and '' are empty cells, an integer of a float64 column is
\* written with '.0'.
dataframe_to_csv_download(frame) ==
    [columns |-> frame.columns,
     rows |-> [i \in 1..Len(frame.rows) |->
                  [c \in frame.columns |->
                      LET v == frame.rows[i][c]
                      IN  IF v.t \in {"none", "nan"} THEN <<>>
                          ELSE IF v.t = "int" /\ FloatColumn(frame, c)
                               THEN v.s \o <<".", "0">>
                          ELSE v.s]]]

\* ------------------------------------------- get_appointments responses
ApiDateTime == DateTimeCell \o <<":", "0", "0">>

\* A booking with its customer, one payment and every optional key.
FullBooking(id) ==
    [id         |-> PyIntObj(Pad(id, 2)),
     status     |-> PyStrObj(<<"a", "p", "p", "r", "o", "v", "e", "d">>),
     customerId |-> PyIntObj(<<"1", "0">>),
     customer   |-> PyDict([firstName |-> PyStrObj(<<"A", "n", "n">>),
                            lastName  |-> PyStrObj(<<"L", "e", "e">>),
                            email     |-> PyStrObj(<<"a", "@", "b">>),
                            phone     |-> PyStrObj(<<"5", "5", "5">>)]),
     persons    |-> PyIntObj(<<"2">>),
     price      |-> PyIntObj(<<"5", "0">>),
     payments   |-> <<[status  |-> PyStrObj(<<"p", "a", "i", "d">>),
                       gateway |-> PyStrObj(<<"c", "a", "r", "d">>),
                       amount  |-> PyIntObj(<<"5", "0">>)]>>,
     duration   |-> PyIntObj(<<"6", "0">>),
     customFields |-> PyStrObj(<<"{", "}">>),
     token      |-> PyStrObj(<<"t", "o", "k">>)]

\* A booking with the mandatory keys only and a null customer.
BareBooking(id) ==
    [id         |-> PyIntObj(Pad(id, 2)),
     status     |-> PyStrObj(<<"p", "e", "n", "d", "i", "n", "g">>),
     customerId |-> PyIntObj(<<"1", "1">>),
     customer   |-> PyNone]

BookingKinds == {"full", "bare"}

\* The 'bookings' key of an appointment: absent, or the kinds of up to
\* MaxBookings bookings.
BookingShapes ==
    {[present |-> FALSE, kinds |-> <<>>]}
        \cup {[present |-> TRUE, kinds |-> ks] :
                 ks \in UNION {[1..n -> BookingKinds] : n \in 0..MaxBookings}}

\* Appointment number k of a response; its bookings have the ids 10k + j.
Appointment(k, shape) ==
    LET base == [id           |-> PyIntObj(Pad(k, 1)),
                 bookingStart |-> PyStrObj(ApiDateTime),
                 bookingEnd   |-> PyStrObj(ApiDateTime),
                 status       |-> PyStrObj(<<"a", "p", "p", "r", "o", "v", "e", "d">>),
                 serviceId    |-> PyIntObj(<<"1">>),
                 providerId   |-> PyIntObj(<<"2">>),
                 locationId   |-> IF k % 2 = 1 THEN PyNone ELSE PyIntObj(<<"3">>)]
    IN  IF ~shape.present THEN base
        ELSE base @@ [bookings |->
                         [j \in 1..Len(shape.kinds) |->
                             IF shape.kinds[j] = "full" THEN FullBooking(10 * k + j)
                             ELSE BareBooking(10 * k + j)]]

\* The responses with n appointments.
Responses(n) ==
    {[data |-> [appointments |-> [k \in 1..n |-> Appointment(k, shapes[k])]]] :
        shapes \in [1..n -> BookingShapes]}

\* A response without 'data', and one whose 'data' has no 'appointments'.
OtherResponses == {[message |-> "ok"], [data |-> [items |-> <<>>]]}

\* ------------------------------------------------------------ API client
\* str.rstrip('/')
RECURSIVE RStripSlash(_)
RStripSlash(s) ==
    IF s # <<>> /\ s[Len(s)] = "/" THEN RStripSlash(SubSeq(s, 1, Len(s) - 1)) ELSE s

\* str.lstrip('/')
RECURSIVE LStripSlash(_)
LStripSlash(s) == IF s # <<>> /\ s[1] = "/" THEN LStripSlash(Tail(s)) ELSE s

\* AmeliaAPIClient.__init__(base_url, api_key)
AmeliaAPIClient(base_url) == [base_url |-> RStripSlash(base_url)]

\* Variant: the endpoint is appended as it is given.
RequestUrl_NoLstrip(client, endpoint) == client.base_url \o <<"/">> \o endpoint

\* url = f"{self.base_url}/{endpoint.lstrip('/')}"
RequestUrl(client, endpoint) == client.base_url \o <<"/">> \o LStripSlash(endpoint)

\* method.upper()
Upper(method) ==
    CASE method = "get" -> "GET"
      [] method = "post" -> "POST"
      [] OTHER -> method

\* The methods given to _make_request.
Methods == {"GET", "get", "POST", "post", "PUT", "DELETE", "PATCH"}

SupportedMethods == {"GET", "POST", "PUT", "DELETE"}

\* The request bodies given to _make_request: none, a dict json.dumps
\* serialises, and a dict holding a value it does not serialise.
NoBody == [t |-> "none", serializable |-> TRUE]

JsonBody == [t |-> "dict", serializable |-> TRUE]

OpaqueBody == [t |-> "dict", serializable |-> FALSE]

RequestBodies == {NoBody, JsonBody, OpaqueBody}

\* The bodies of the responses: a JSON document (parses, with its value) or
\* a text that is not JSON.
JsonDocument(value) == [parses |-> TRUE, value |-> value]

HtmlPage == [parses |-> FALSE, value |-> [t |-> "str"]]

DataObject == PyDict([data |-> [categories |-> <<>>]])

MessageObject == PyDict([message |-> "Not found"])

ErrorObject == PyDict([error |-> [text |-> "Invalid API key", code |-> <<>>]])

JsonList == [t |-> "list"]

ResponseBodies ==
    {JsonDocument(DataObject), JsonDocument(MessageObject), JsonDocument(ErrorObject),
     JsonDocument(JsonList), JsonDocument(NoneResult), HtmlPage}

\* The status codes of the responses requests hands back: success, a 3xx
\* that is not a followed redirect, a client error, a server error.
StatusCodes == {200, 304, 404, 500}

\* What the server and the transport do with one request.
HttpResponse(status_code, body) ==
    [kind |-> "response", status_code |-> status_code, body |-> body]

TransportError(kind) == [kind |-> kind, status_code |-> 0, body |-> HtmlPage]

Behaviours ==
    {HttpResponse(c, b) : c \in StatusCodes, b \in ResponseBodies}
        \cup {TransportError(k) : k \in {"ConnectionError", "Timeout", "RequestException"}}

\* The message of a failure value: a text, with the status code for
\* f"HTTP Error: {status_code}".
Message(text) == [text |-> text, code |-> <<>>]

HttpErrorMessage(status_code) == [text |-> "HTTP Error: ", code |-> <<status_code>>]

\* What a call gives its caller: a returned value or a raised exception.
Returns(value) == [raised |-> FALSE, value |-> value]

RaisesError(name) == [raised |-> TRUE, value |-> [t |-> "exception", name |-> name]]

\* {"error": error_msg, "success": False}
Failure(msg) == PyDict([error |-> msg, success |-> FALSE])

\* response.raise_for_status() raises HTTPError
IsHttpError(status_code) == status_code >= 400 /\ status_code < 600

\* Variant: the failure value of a status is built without status_code.
HttpErrorResult_NoStatus(b) ==
    Failure(IF b.body.parses /\ b.body.value.t = "dict"
               /\ "message" \in DOMAIN b.body.value.d
            THEN Message(b.body.value.d.message)
            ELSE HttpErrorMessage(b.status_code))

\* except requests.exceptions.HTTPError: the message is the body's 'message'
\* when the body is a JSON object, every exception of the lookup being
\* passed.
HttpErrorResult(b) ==
    LET generic == HttpErrorMessage(b.status_code)
        msg == IF b.body.parses /\ b.body.value.t = "dict"
               THEN (IF "message" \in DOMAIN b.body.value.d
                     THEN Message(b.body.value.d.message) ELSE generic)
               ELSE generic
    IN  PyDict([error |-> msg, success |-> FALSE, status_code |-> b.status_code])

\* Whether a request goes out: the method is one of the four and the body,
\* where one is sent, serialises.
SendsBody(method) == Upper(method) \in {"POST", "PUT"}

RequestSent(method, data) ==
    /\ Upper(method) \in SupportedMethods
    /\ ~(SendsBody(method) /\ ~data.serializable)

\* AmeliaAPIClient._make_request(method, endpoint, data), b being what the
\* server and the transport do with the request.
make_request(method, data, b) ==
    IF Upper(method) \notin SupportedMethods
    THEN Returns(PyDict([error |-> Message("Unsupported HTTP method"), success |-> FALSE]))
    ELSE IF SendsBody(method) /\ ~data.serializable THEN RaisesError("TypeError")
    ELSE IF b.kind = "ConnectionError"
    THEN Returns(Failure(Message("Connection Error: Unable to connect to API")))
    ELSE IF b.kind = "Timeout"
    THEN Returns(Failure(Message("Timeout Error: Request took too long")))
    ELSE IF b.kind = "RequestException" THEN Returns(Failure(Message("Request Error: ")))
    ELSE IF IsHttpError(b.status_code) THEN Returns(HttpErrorResult(b))
    ELSE IF b.body.parses THEN Returns(b.body.value)
    ELSE Returns(PyDict([data |-> b.body.value, success |-> TRUE]))

\* Variant: a probe passes whenever the result has no 'error'.
test_connection_NoErrorOnly(outcome) ==
    IF outcome.raised \/ outcome.value.t # "dict" THEN FALSE
    ELSE "error" \notin DOMAIN outcome.value.d

\* AmeliaAPIClient.test_connection(), outcome being what get_categories
\* gives: every exception, also the TypeError of `in` on None, is False.
test_connection(outcome) ==
    IF outcome.raised \/ outcome.value.t # "dict" THEN FALSE
    ELSE "error" \notin DOMAIN outcome.value.d /\ "data" \in DOMAIN outcome.value.d

\* The base URLs and the endpoints given to the client.
ApiBase == <<"h", "t", "t", "p", "s", ":", "/", "/", "x", "/", "a", "p", "i">>

BaseUrls == {ApiBase, ApiBase \o <<"/">>, ApiBase \o <<"/", "/">>}

CategoriesPath == <<"c", "a", "t", "e", "g", "o", "r", "i", "e", "s">>

AppointmentPath == <<"a", "p", "p", "o", "i", "n", "t", "m", "e", "n", "t", "s", "/", "7">>

Endpoints ==
    {CategoriesPath, <<"/">> \o CategoriesPath, <<"/", "/">> \o CategoriesPath,
     AppointmentPath, <<"/">> \o AppointmentPath}

\* ------------------------------------------------------------- state
VARIABLES
    pc,             \* "no_file" | "invalid" | "ready" | "importing" | "done"
                    \* | "loaded" | "transformed" | "fetched" | "exported"
                    \* | "client" | "called" | "handled"
    df,             \* the uploaded table: [columns, rows]
    is_valid,       \* validate_appointment_csv(df)[0]
    errors,         \* validate_appointment_csv(df)[1]
    dry_run,        \* import options
    skip_errors,
    batch_size,
    delay_between,
    idx,            \* index label of the next row of df.iterrows()
    success_count,
    error_count,
    skipped_count,
    errors_list,
    success_list,
    submit_calls,   \* history: the create_appointment calls made, in order
    outcomes,       \* history: [row, status] of every row processed, in order
    sleeps,         \* history: the rows after which time.sleep ran
    transformed,    \* the last csv_to_appointment_data call: [row, result]
    appointments_data,  \* the response of get_appointments handed to the export
    exported,       \* the DataFrame of export_appointments_to_csv: [columns, rows]
    client,         \* the AmeliaAPIClient under test: <<>> or <<client>>
    last_call,      \* the last call of a client method: its arguments, the
                    \* requests it sent and what it gave its caller
    session_state,  \* st.session_state
    handler,        \* the last handler run: its calls, pauses and counters
    logged          \* history: every entry given to log_operation, in order

vars == <<pc, df, is_valid, errors, dry_run, skip_errors, batch_size, delay_between, idx,
          success_count, error_count, skipped_count, errors_list, success_list,
          submit_calls, outcomes, sleeps, transformed, appointments_data, exported,
          client, last_call, session_state, handler, logged>>

\* The state of the client and of the session.
session == <<client, last_call, session_state, handler, logged>>

NoCall == [name |-> "none"]

\* st.session_state as the script initialises it.
NewSessionState ==
    [api_client |-> <<>>, authenticated |-> FALSE,
     appointments_cache |-> <<>>, customers_cache |-> <<>>, services_cache |-> <<>>,
     last_refresh |-> <<>>, operation_log |-> <<>>]

NoHandler == [name |-> "none"]

\* The state of the transform and of the export pages.
pages == <<transformed, appointments_data, exported>>

NoTransform == [row |-> 0, result |-> [raised |-> FALSE, payload |-> <<>>]]

NoData == [t |-> "none"]

NoExport == [columns |-> {}, rows |-> <<>>]

options == <<dry_run, skip_errors, batch_size, delay_between>>

\* The counters and lists as they are before the loop.
NoReport ==
    [success_count |-> 0, error_count |-> 0, skipped_count |-> 0,
     errors_list |-> <<>>, success_list |-> <<>>,
     submit_calls |-> <<>>, outcomes |-> <<>>, sleeps |-> <<>>, stop |-> FALSE]

\* The counters and lists of the current state.
Report ==
    [success_count |-> success_count, error_count |-> error_count,
     skipped_count |-> skipped_count,
     errors_list |-> errors_list, success_list |-> success_list,
     submit_calls |-> submit_calls, outcomes |-> outcomes, sleeps |-> sleeps,
     stop |-> FALSE]

\* ------------------------------------------------------- the import loop
\* One error entry of errors_list.
ErrorEntry(i, row, msg) == [row |-> i + 1, data |-> row, error |-> msg]

\* if (idx + 1) % batch_size == 0 and delay_between > 0: time.sleep(delay_between)
BatchDelay(st, o, i) ==
    IF (i + 1) % o.batch_size = 0 /\ o.delay_between > 0
    THEN [st EXCEPT !.sleeps = Append(@, i + 1)]
    ELSE st

\* Variant: the error is counted but no entry is appended to errors_list.
CountError_NoEntry(st, i, row, msg) ==
    [st EXCEPT !.error_count = @ + 1,
               !.outcomes = Append(@, [row |-> i + 1, status |-> "error"])]

\* error_count += 1; errors_list.append({...})
CountError(st, i, row, msg) ==
    [st EXCEPT !.error_count = @ + 1,
               !.errors_list = Append(@, ErrorEntry(i, row, msg)),
               !.outcomes = Append(@, [row |-> i + 1, status |-> "error"])]

\* Variant: the loop breaks on an error whatever skip_errors is.
BreakAlways(st, o) == [st EXCEPT !.stop = TRUE]

\* if not skip_errors: break
BreakUnlessSkip(st, o) == [st EXCEPT !.stop = ~o.skip_errors]

\* The except clause of the loop body.
ExceptClause(st, o, i, row, msg) == BreakUnlessSkip(CountError(st, i, row, msg), o)

\* Variant: a dry run records the outcome without counting the success.
CountSuccess_LiveOnly(st, o, i, payload, result) ==
    [st EXCEPT !.success_count = IF o.dry_run THEN @ ELSE @ + 1,
               !.success_list =
                   IF o.dry_run THEN @
                   ELSE Append(@, [row |-> i + 1,
                                   appointment_id |->
                                       IF "id" \in DOMAIN result.d.data.appointment
                                       THEN <<result.d.data.appointment.id>> ELSE <<>>,
                                   booking_start |-> payload.bookingStart]),
               !.outcomes = Append(@, [row |-> i + 1, status |-> "success"])]

\* success_count += 1, and in a live run success_list.append({...})
CountSuccess(st, o, i, payload, result) ==
    [st EXCEPT !.success_count = @ + 1,
               !.success_list =
                   IF o.dry_run THEN @
                   ELSE Append(@, [row |-> i + 1,
                                   appointment_id |->
                                       IF "id" \in DOMAIN result.d.data.appointment
                                       THEN <<result.d.data.appointment.id>> ELSE <<>>,
                                   booking_start |-> payload.bookingStart]),
               !.outcomes = Append(@, [row |-> i + 1, status |-> "success"])]

\* The classification of the result of create_appointment.
Classify(st, o, i, row, payload, result) ==
    IF result.t # "dict"
    THEN ExceptClause(st, o, i, row, "TypeError")
    ELSE IF "error" \in DOMAIN result.d
    THEN LET e == BreakUnlessSkip(CountError(st, i, row, result.d.error), o)
         IN  IF e.stop THEN e ELSE BatchDelay(e, o, i)
    ELSE IF "data" \in DOMAIN result.d /\ "appointment" \in DOMAIN result.d.data
    THEN BatchDelay(CountSuccess(st, o, i, payload, result), o, i)
    ELSE BatchDelay(CountError(st, i, row, "Unexpected response format"), o, i)

\* Variant: the dry_run option is not read; every transformed row is submitted.
ImportRow_SubmitsInDryRun(st, o, table, i, result) ==
    LET row == RowSeries(table, i + 1)
        t == csv_to_appointment_data(row)
    IN  IF t.raised THEN ExceptClause(st, o, i, row, "ValueError")
        ELSE Classify([st EXCEPT !.submit_calls =
                           Append(@, [row |-> i + 1, payload |-> t.payload[1],
                                      result |-> result])],
                      o, i, row, t.payload[1], result)

\* Variant: a call that did not return a recognized success is made again.
ImportRow_Retry(st, o, table, i, result) ==
    LET row == RowSeries(table, i + 1)
        t == csv_to_appointment_data(row)
        call == [row |-> i + 1, payload |-> t.payload[1], result |-> result]
        again == result.t # "dict" \/ "error" \in DOMAIN result.d
    IN  IF t.raised THEN ExceptClause(st, o, i, row, "ValueError")
        ELSE IF o.dry_run
        THEN BatchDelay(CountSuccess(st, o, i, t.payload[1], result), o, i)
        ELSE Classify([st EXCEPT !.submit_calls =
                           IF again THEN Append(Append(@, call), call) ELSE Append(@, call)],
                      o, i, row, t.payload[1], result)

\* The body of  for idx, row in df.iterrows()  for index label i, where
\* result is what create_appointment returns if it is called.
ImportRow(st, o, table, i, result) ==
    LET row == RowSeries(table, i + 1)
        t == csv_to_appointment_data(row)
    IN  IF t.raised THEN ExceptClause(st, o, i, row, "ValueError")
        ELSE IF o.dry_run
        THEN BatchDelay(CountSuccess(st, o, i, t.payload[1], result), o, i)
        ELSE Classify([st EXCEPT !.submit_calls =
                           Append(@, [row |-> i + 1, payload |-> t.payload[1],
                                      result |-> result])],
                      o, i, row, t.payload[1], result)

\* ---------------------------------------------------------------- actions
Init ==
    /\ pc = "no_file"
    /\ df = [columns |-> {}, rows |-> <<>>]
    /\ is_valid = FALSE
    /\ errors = <<>>
    /\ dry_run = FALSE
    /\ skip_errors = TRUE
    /\ batch_size = MinBatch
    /\ delay_between = 0
    /\ idx = 0
    /\ success_count = 0
    /\ error_count = 0
    /\ skipped_count = 0
    /\ errors_list = <<>>
    /\ success_list = <<>>
    /\ submit_calls = <<>>
    /\ outcomes = <<>>
    /\ sleeps = <<>>
    /\ transformed = NoTransform
    /\ appointments_data = NoData
    /\ exported = NoExport
    /\ client = <<>>
    /\ last_call = NoCall
    /\ session_state = NewSessionState
    /\ handler = NoHandler
    /\ logged = <<>>

SetReport(st) ==
    /\ success_count' = st.success_count
    /\ error_count' = st.error_count
    /\ skipped_count' = st.skipped_count
    /\ errors_list' = st.errors_list
    /\ success_list' = st.success_list
    /\ submit_calls' = st.submit_calls
    /\ outcomes' = st.outcomes
    /\ sleeps' = st.sleeps

\* The user picks a file: pd.read_csv, then validate_appointment_csv.
UploadFrom(pool) ==
    /\ pc = "no_file"
    /\ \E cols \in ColumnSets : \E rows \in Tables(cols, pool) :
        LET table == [columns |-> cols, rows |-> rows]
            v == validate_appointment_csv(table)
        IN  /\ df' = table
            /\ is_valid' = v.is_valid
            /\ errors' = v.errors
            /\ pc' = IF v.is_valid THEN "ready" ELSE "invalid"
            /\ idx' = 0
            /\ SetReport(NoReport)
            /\ UNCHANGED options
            /\ UNCHANGED pages
            /\ UNCHANGED session

Upload == UploadFrom(ImportPool)

UploadAny == UploadFrom(RowPool)

\* The user removes the file from the uploader: nothing of the import page
\* is drawn any more.
RemoveFile ==
    /\ pc \in {"invalid", "ready", "done", "transformed", "exported"}
    /\ pc' = "no_file"
    /\ df' = [columns |-> {}, rows |-> <<>>]
    /\ is_valid' = FALSE
    /\ errors' = <<>>
    /\ idx' = 0
    /\ SetReport(NoReport)
    /\ dry_run' = FALSE
    /\ skip_errors' = TRUE
    /\ batch_size' = MinBatch
    /\ delay_between' = 0
    /\ transformed' = NoTransform
    /\ appointments_data' = NoData
    /\ exported' = NoExport
    /\ UNCHANGED session

\* Variant: the Start Import button is drawn whatever validation returned.
StartImport_AnyFile ==
    /\ pc \in {"ready", "invalid"}
    /\ \E d \in BOOLEAN, s \in BOOLEAN, b \in MinBatch..MaxBatch, w \in Delays :
          /\ dry_run' = d
          /\ skip_errors' = s
          /\ batch_size' = b
          /\ delay_between' = w
    /\ idx' = 0
    /\ SetReport(NoReport)
    /\ pc' = IF Len(df.rows) = 0 THEN "done" ELSE "importing"
    /\ UNCHANGED <<df, is_valid, errors>>
    /\ UNCHANGED pages
    /\ UNCHANGED session

\* The user sets the options and presses Start Import; the button is drawn
\* only in the branch where is_valid holds.  Every press reruns the script
\* from the file, so a press after a finished import starts as this one does.
StartImport ==
    /\ pc = "ready"
    /\ is_valid
    /\ \E d \in BOOLEAN, s \in BOOLEAN, b \in MinBatch..MaxBatch, w \in Delays :
          /\ dry_run' = d
          /\ skip_errors' = s
          /\ batch_size' = b
          /\ delay_between' = w
    /\ idx' = 0
    /\ SetReport(NoReport)
    /\ pc' = IF Len(df.rows) = 0 THEN "done" ELSE "importing"
    /\ UNCHANGED <<df, is_valid, errors>>
    /\ UNCHANGED pages
    /\ UNCHANGED session

\* Whether the next iteration reaches create_appointment.
CallsSubmit ==
    ~dry_run /\ ~csv_to_appointment_data(RowSeries(df, idx + 1)).raised

\* One iteration of the import loop.
ProcessRow ==
    /\ pc = "importing"
    /\ idx < Len(df.rows)
    /\ \E result \in (IF CallsSubmit THEN Results ELSE {NoneResult}) :
          LET o == [dry_run |-> dry_run, skip_errors |-> skip_errors,
                    batch_size |-> batch_size, delay_between |-> delay_between]
              st == ImportRow(Report, o, df, idx, result)
          IN  /\ SetReport(st)
              /\ idx' = IF st.stop THEN idx ELSE idx + 1
              /\ pc' = IF st.stop \/ idx + 1 = Len(df.rows) THEN "done" ELSE "importing"
    /\ UNCHANGED <<df, is_valid, errors, options>>
    /\ UNCHANGED pages
    /\ UNCHANGED session

Next == Upload \/ RemoveFile \/ StartImport \/ ProcessRow

Spec == Init /\ [][Next]_vars

\* The validator alone, on every file of the larger pool.
NextValidate == UploadAny \/ RemoveFile

SpecValidate == Init /\ [][NextValidate]_vars

\* pd.read_csv of a file in the import format, without the steps of the
\* import page.
ReadTable ==
    /\ pc = "no_file"
    /\ \E cols \in PayloadColumnSets : \E rows \in Tables(cols, PayloadPool) :
          /\ Len(rows) >= 1
          /\ df' = [columns |-> cols, rows |-> rows]
    /\ pc' = "loaded"
    /\ UNCHANGED <<is_valid, errors, options, idx, success_count, error_count,
                   skipped_count, errors_list, success_list, submit_calls, outcomes,
                   sleeps, pages, session>>

\* csv_to_appointment_data(row) on one row of df.iterrows().
Transform ==
    /\ pc \in {"loaded", "transformed"}
    /\ \E i \in 1..Len(df.rows) :
          transformed' = [row |-> i, result |-> csv_to_appointment_data(RowSeries(df, i))]
    /\ pc' = "transformed"
    /\ UNCHANGED <<df, is_valid, errors, options, idx, success_count, error_count,
                   skipped_count, errors_list, success_list, submit_calls, outcomes,
                   sleeps, appointments_data, exported, session>>

NextPayload == ReadTable \/ Transform \/ RemoveFile

SpecPayload == Init /\ [][NextPayload]_vars

\* api_client.get_appointments(params) returns.
FetchFrom(responses) ==
    /\ pc = "no_file"
    /\ appointments_data' \in responses
    /\ pc' = "fetched"
    /\ UNCHANGED <<df, is_valid, errors, options, idx, success_count, error_count,
                   skipped_count, errors_list, success_list, submit_calls, outcomes,
                   sleeps, transformed, exported, session>>

Fetch == FetchFrom(OtherResponses \cup UNION {Responses(n) : n \in 0..MaxAppts})

\* The response holds one appointment.
FetchOne == FetchFrom(Responses(1))

\* df = CSVHandler.export_appointments_to_csv(result)
Export ==
    /\ pc = "fetched"
    /\ exported' = export_appointments_to_csv(appointments_data)
    /\ pc' = "exported"
    /\ UNCHANGED <<df, is_valid, errors, options, idx, success_count, error_count,
                   skipped_count, errors_list, success_list, submit_calls, outcomes,
                   sleeps, transformed, appointments_data, session>>

NextExport == Fetch \/ Export \/ RemoveFile

SpecExport == Init /\ [][NextExport]_vars

\* The user downloads the export and picks the file in the import tab:
\* to_csv, pd.read_csv, validate_appointment_csv.
UploadExport ==
    /\ pc = "exported"
    /\ Len(exported.rows) >= 1
    /\ LET table == dataframe_to_csv_download(exported)
           v == validate_appointment_csv(table)
       IN  /\ df' = table
           /\ is_valid' = v.is_valid
           /\ errors' = v.errors
           /\ pc' = IF v.is_valid THEN "ready" ELSE "invalid"
    /\ idx' = 0
    /\ SetReport(NoReport)
    /\ UNCHANGED options
    /\ UNCHANGED pages
    /\ UNCHANGED session

NextRoundTrip == FetchOne \/ Export \/ UploadExport \/ StartImport \/ ProcessRow \/ RemoveFile

SpecRoundTrip == Init /\ [][NextRoundTrip]_vars

\* ------------------------------------------------------------- handlers
\* The entry log_operation builds; the timestamp is the number of the call.
LogEntry(timestamp, type, status) ==
    [timestamp |-> timestamp, type |-> type, status |-> status]

\* Variant: the log keeps its first LogCap entries.
log_operation_KeepFirst(log, entry) ==
    LET appended == Append(log, entry)
    IN  IF Len(appended) > LogCap THEN SubSeq(appended, 1, LogCap) ELSE appended

\* log_operation: append, then keep the last 100 entries.
log_operation(log, entry) ==
    LET appended == Append(log, entry)
    IN  IF Len(appended) > LogCap
        THEN SubSeq(appended, Len(appended) - LogCap + 1, Len(appended))
        ELSE appended

\* A handler calls log_operation(type, status, ...).
LogFrom(ss, type, status) ==
    /\ session_state' = [ss EXCEPT !.operation_log =
                            log_operation(@, LogEntry(Len(logged) + 1, type, status))]
    /\ logged' = Append(logged, LogEntry(Len(logged) + 1, type, status))

\* log_operation called on its own.
LogOperation ==
    /\ pc = "no_file"
    /\ Len(logged) < MaxLogCalls
    /\ LogFrom(session_state, "EXPORT_CSV", "SUCCESS")
    /\ UNCHANGED <<pc, df, is_valid, errors, options, idx, success_count, error_count,
                   skipped_count, errors_list, success_list, submit_calls, outcomes,
                   sleeps, pages, client, last_call, handler>>

NextLog == LogOperation

SpecLog == Init /\ [][NextLog]_vars

\* What the server does with the probes of init_api_client.
ProbeBehaviours ==
    {HttpResponse(200, JsonDocument(DataObject)), HttpResponse(404, JsonDocument(MessageObject)),
     TransportError("Timeout"), HttpResponse(200, JsonDocument(NoneResult))}

\* Variant: the loop of probes does not stop at a probe that passed.
RECURSIVE ProbeLoop_NoStop(_, _, _)
ProbeLoop_NoStop(attempt, bs, events) ==
    IF attempt = MaxRetries THEN [events |-> events, connected |-> FALSE]
    ELSE LET ok == test_connection(make_request("GET", NoBody, bs[attempt + 1]))
             probed == Append(events, [kind |-> "probe", attempt |-> attempt, ok |-> ok])
         IN  IF ok /\ attempt = MaxRetries - 1
             THEN [events |-> probed, connected |-> TRUE]
             ELSE ProbeLoop_NoStop(attempt + 1, bs,
                            IF attempt < MaxRetries - 1
                            THEN Append(probed, [kind |-> "sleep", attempt |-> attempt,
                                                 ok |-> FALSE])
                            ELSE probed)

\* for attempt in range(max_retries): the probes and pauses made from
\* attempt on, and whether a probe passed.
RECURSIVE ProbeLoop(_, _, _)
ProbeLoop(attempt, bs, events) ==
    IF attempt = MaxRetries THEN [events |-> events, connected |-> FALSE]
    ELSE LET ok == test_connection(make_request("GET", NoBody, bs[attempt + 1]))
             probed == Append(events, [kind |-> "probe", attempt |-> attempt, ok |-> ok])
         IN  IF ok THEN [events |-> probed, connected |-> TRUE]
             ELSE ProbeLoop(attempt + 1, bs,
                            IF attempt < MaxRetries - 1
                            THEN Append(probed, [kind |-> "sleep", attempt |-> attempt,
                                                 ok |-> FALSE])
                            ELSE probed)

\* main: if not st.session_state.authenticated: init_api_client().
InitApiClient ==
    /\ pc = "no_file"
    /\ ~session_state.authenticated
    /\ Len(logged) < MaxLogged
    /\ \E secrets \in BOOLEAN, bs \in [1..MaxRetries -> ProbeBehaviours] :
          IF ~secrets
          THEN /\ handler' = [name |-> "init_api_client", events |-> <<>>,
                              before |-> session_state, returned |-> FALSE]
               /\ UNCHANGED <<session_state, logged>>
          ELSE LET run == ProbeLoop(0, bs, <<>>)
               IN  /\ handler' = [name |-> "init_api_client", events |-> run.events,
                                  before |-> session_state,
                                  returned |-> run.connected]
                   /\ IF run.connected
                      THEN LogFrom([session_state EXCEPT
                                       !.api_client = <<AmeliaAPIClient(ApiBase)>>,
                                       !.authenticated = TRUE],
                                   "API_CONNECTION", "SUCCESS")
                      ELSE LogFrom(session_state, "API_CONNECTION", "FAILURE")
    /\ pc' = "handled"
    /\ UNCHANGED <<df, is_valid, errors, options, idx, success_count, error_count,
                   skipped_count, errors_list, success_list, submit_calls, outcomes,
                   sleeps, pages, client, last_call>>

\* The script has run to its end (or st.stop()); the next run starts.
Rerun ==
    /\ pc = "handled"
    /\ pc' = "no_file"
    /\ handler' = NoHandler
    /\ UNCHANGED <<df, is_valid, errors, options, idx, success_count, error_count,
                   skipped_count, errors_list, success_list, submit_calls, outcomes,
                   sleeps, pages, client, last_call, session_state, logged>>

\* The browser session ends; the next one starts with a new session state.
EndSession ==
    /\ pc = "handled"
    /\ pc' = "no_file"
    /\ handler' = NoHandler
    /\ session_state' = NewSessionState
    /\ logged' = <<>>
    /\ UNCHANGED <<df, is_valid, errors, options, idx, success_count, error_count,
                   skipped_count, errors_list, success_list, submit_calls, outcomes,
                   sleeps, pages, client, last_call>>

\* The caches of the dashboard, in the order the refresh loads them.
CacheNames == <<"appointments_cache", "customers_cache", "services_cache">>

\* A listing as the server returns it.
Listing(version) == PyDict([data |-> [version |-> version]])

\* What the server does with a fetch of the refresh.
FetchBehaviours ==
    {HttpResponse(200, JsonDocument(Listing(1))), HttpResponse(200, JsonDocument(Listing(2))),
     TransportError("Timeout"), HttpResponse(200, JsonDocument(NoneResult))}

\* 'data' in result, for a result that is a dict.
HasData(result) == "data" \in DOMAIN result.d

\* Variant: a fetch without 'data' empties its cache.
RECURSIVE Refreshed_ClearsOnFailure(_, _, _)
Refreshed_ClearsOnFailure(ss, bs, k) ==
    IF k > Len(CacheNames)
    THEN [ss |-> [ss EXCEPT !.last_refresh = <<"now">>], fetched |-> k - 1,
          raised |-> FALSE]
    ELSE LET result == make_request("GET", NoBody, bs[k]).value
         IN  IF result.t # "dict"
             THEN [ss |-> ss, fetched |-> k, raised |-> TRUE]
             ELSE Refreshed_ClearsOnFailure(
                      [ss EXCEPT ![CacheNames[k]] =
                          IF HasData(result) THEN <<result>> ELSE <<>>], bs, k + 1)

\* The body of the refresh button from its k-th fetch on: each result with
\* 'data' replaces its cache; 'data' in None raises and ends the run.
RECURSIVE Refreshed(_, _, _)
Refreshed(ss, bs, k) ==
    IF k > Len(CacheNames)
    THEN [ss |-> [ss EXCEPT !.last_refresh = <<"now">>], fetched |-> k - 1,
          raised |-> FALSE]
    ELSE LET result == make_request("GET", NoBody, bs[k]).value
         IN  IF result.t # "dict"
             THEN [ss |-> ss, fetched |-> k, raised |-> TRUE]
             ELSE Refreshed(IF HasData(result)
                            THEN [ss EXCEPT ![CacheNames[k]] = <<result>>]
                            ELSE ss, bs, k + 1)

\* if st.button("Refresh Dashboard Data")
Refresh ==
    /\ pc = "no_file"
    /\ session_state.authenticated
    /\ \E bs \in [1..Len(CacheNames) -> FetchBehaviours] :
          LET run == Refreshed(session_state, bs, 1)
          IN  /\ session_state' = run.ss
              /\ handler' = [name |-> "refresh", behaviours |-> bs,
                             before |-> session_state, fetched |-> run.fetched,
                             raised |-> run.raised]
    /\ pc' = "handled"
    /\ UNCHANGED <<df, is_valid, errors, options, idx, success_count, error_count,
                   skipped_count, errors_list, success_list, submit_calls, outcomes,
                   sleeps, pages, client, last_call, logged>>

NextSession == InitApiClient \/ Refresh \/ Rerun \/ EndSession

SpecSession == Init /\ [][NextSession]_vars

\* ------------------------------------------------------- bulk operations
\* A line of the text area: an appointment id, or a blank line ("").
Lines == {"7", "8", ""}

TextAreas == UNION {[1..n -> Lines] : n \in 1..MaxLines}

\* ids = [id.strip() for id in appointment_ids.split('\n') if id.strip()]
IdsOf(text) == SelectSeq(text, LAMBDA line : line # "")

\* What the server does with one request of a bulk operation.
BulkBehaviours ==
    {HttpResponse(200, JsonDocument(DataObject)), HttpResponse(404, JsonDocument(MessageObject)),
     HttpResponse(200, JsonDocument(NoneResult))}

NoCounts == [attempts |-> <<>>, success_count |-> 0, error_count |-> 0,
             errors_list |-> <<>>]

\* One pass of the loop body: the call, then 'error' in result; the
\* TypeError of 'error' in None is caught and counts as an error.
BulkStep(method, data, appt_id, b, acc) ==
    LET result == make_request(method, data, b).value
        attempted == [acc EXCEPT !.attempts = Append(@, appt_id)]
    IN  IF result.t # "dict"
        THEN [attempted EXCEPT !.error_count = @ + 1,
                               !.errors_list = Append(@, [id |-> appt_id,
                                                          error |-> Message("TypeError")])]
        ELSE IF "error" \in DOMAIN result.d
        THEN [attempted EXCEPT !.error_count = @ + 1,
                               !.errors_list = Append(@, [id |-> appt_id,
                                                          error |-> result.d.error])]
        ELSE [attempted EXCEPT !.success_count = @ + 1]

\* Variant: the loop ends at the first id that failed.
RECURSIVE BulkLoop_StopsAtError(_, _, _, _, _, _)
BulkLoop_StopsAtError(method, data, ids, bs, k, acc) ==
    IF k > Len(ids) \/ acc.error_count > 0 THEN acc
    ELSE BulkLoop_StopsAtError(method, data, ids, bs, k + 1,
                               BulkStep(method, data, ids[k], bs[k], acc))

\* for idx, appt_id in enumerate(ids), from the k-th id on.
RECURSIVE BulkLoop(_, _, _, _, _, _)
BulkLoop(method, data, ids, bs, k, acc) ==
    IF k > Len(ids) THEN acc
    ELSE BulkLoop(method, data, ids, bs, k + 1,
                  BulkStep(method, data, ids[k], bs[k], acc))

\* if st.button("Update Status")
BulkUpdate ==
    /\ pc = "no_file"
    /\ session_state.authenticated
    /\ Len(logged) < MaxLogged
    /\ \E text \in TextAreas :
          LET ids == IdsOf(text)
          IN  IF ids = <<>>
              THEN /\ handler' = [name |-> "bulk_update", text |-> text, ran |-> FALSE]
                   /\ UNCHANGED <<session_state, logged>>
              ELSE \E bs \in [1..Len(ids) -> BulkBehaviours] :
                      LET run == BulkLoop("PUT", JsonBody, ids, bs, 1, NoCounts)
                      IN  /\ handler' = [name |-> "bulk_update", text |-> text,
                                         ran |-> TRUE, attempts |-> run.attempts,
                                         success_count |-> run.success_count,
                                         error_count |-> run.error_count,
                                         errors_list |-> run.errors_list]
                          /\ LogFrom(session_state, "BULK_UPDATE_STATUS", "COMPLETED")
    /\ pc' = "handled"
    /\ UNCHANGED <<df, is_valid, errors, options, idx, success_count, error_count,
                   skipped_count, errors_list, success_list, submit_calls, outcomes,
                   sleeps, pages, client, last_call>>

\* if st.button("Delete Appointments", disabled=not confirm_delete)
BulkDelete ==
    /\ pc = "no_file"
    /\ session_state.authenticated
    /\ \E text \in TextAreas :
          LET ids == IdsOf(text)
          IN  IF ids = <<>>
              THEN handler' = [name |-> "bulk_delete", text |-> text, ran |-> FALSE]
              ELSE \E bs \in [1..Len(ids) -> BulkBehaviours] :
                      LET run == BulkLoop("DELETE", NoBody, ids, bs, 1, NoCounts)
                      IN  handler' = [name |-> "bulk_delete", text |-> text,
                                      ran |-> TRUE, attempts |-> run.attempts,
                                      success_count |-> run.success_count,
                                      error_count |-> run.error_count]
    /\ pc' = "handled"
    /\ UNCHANGED <<df, is_valid, errors, options, idx, success_count, error_count,
                   skipped_count, errors_list, success_list, submit_calls, outcomes,
                   sleeps, pages, client, last_call, session_state, logged>>

NextBulk == InitApiClient \/ BulkUpdate \/ BulkDelete \/ Rerun \/ EndSession

SpecBulk == Init /\ [][NextBulk]_vars

\* client = AmeliaAPIClient(api_base, api_key)
NewClient ==
    /\ pc = "no_file"
    /\ \E base \in BaseUrls :
          /\ client' = <<AmeliaAPIClient(base)>>
          /\ last_call' = [name |-> "__init__", configured |-> base]
    /\ pc' = "client"
    /\ UNCHANGED <<df, is_valid, errors, options, idx, success_count, error_count,
                   skipped_count, errors_list, success_list, submit_calls, outcomes,
                   sleeps, pages, session_state, handler, logged>>

\* The record of one call of a client method.
Call(name, method, endpoint, data, b, outcome) ==
    [name |-> name, configured |-> last_call.configured,
     method |-> method, endpoint |-> endpoint, data |-> data, behaviour |-> b,
     url |-> RequestUrl(client[1], endpoint),
     sent |-> IF RequestSent(method, data)
              THEN <<[method |-> Upper(method), url |-> RequestUrl(client[1], endpoint)]>>
              ELSE <<>>,
     result |-> make_request(method, data, b),
     outcome |-> outcome]

\* client._make_request(method, endpoint, data)
MakeRequest ==
    /\ pc = "client"
    /\ \E method \in Methods, endpoint \in Endpoints, data \in RequestBodies,
          b \in Behaviours :
          last_call' = Call("_make_request", method, endpoint, data, b,
                            make_request(method, data, b))
    /\ pc' = "called"
    /\ UNCHANGED <<df, is_valid, errors, options, idx, success_count, error_count,
                   skipped_count, errors_list, success_list, submit_calls, outcomes,
                   sleeps, pages, client, session_state, handler, logged>>

\* client.test_connection(): get_categories is _make_request('GET',
\* '/categories').
TestConnection ==
    /\ pc = "client"
    /\ \E b \in Behaviours :
          last_call' = Call("test_connection", "GET", <<"/">> \o CategoriesPath, NoBody, b,
                            Returns([t |-> "bool",
                                     b |-> test_connection(make_request("GET", NoBody, b))]))
    /\ pc' = "called"
    /\ UNCHANGED <<df, is_valid, errors, options, idx, success_count, error_count,
                   skipped_count, errors_list, success_list, submit_calls, outcomes,
                   sleeps, pages, client, session_state, handler, logged>>

\* The caller goes on with the client after a call.
GoOn ==
    /\ pc = "called"
    /\ pc' = "client"
    /\ last_call' = [name |-> "__init__", configured |-> last_call.configured]
    /\ UNCHANGED <<df, is_valid, errors, options, idx, success_count, error_count,
                   skipped_count, errors_list, success_list, submit_calls, outcomes,
                   sleeps, pages, client, session_state, handler, logged>>

\* The client object is dropped.
DropClient ==
    /\ pc = "client"
    /\ pc' = "no_file"
    /\ client' = <<>>
    /\ last_call' = NoCall
    /\ UNCHANGED <<df, is_valid, errors, options, idx, success_count, error_count,
                   skipped_count, errors_list, success_list, submit_calls, outcomes,
                   sleeps, pages, session_state, handler, logged>>

NextClient == NewClient \/ MakeRequest \/ TestConnection \/ GoOn \/ DropClient

SpecClient == Init /\ [][NextClient]_vars

\* ================================================================ claims
\* Whether csv_to_appointment_data raises on data row i of the file.
Raises(i) == csv_to_appointment_data(RowSeries(df, i)).raised

\* The data rows of the file on which csv_to_appointment_data returns.
TransformableRows == {i \in 1..Len(df.rows) : ~Raises(i)}

\* The rows a dry run reaches: all of them, or with skip_errors unset the
\* rows up to and including the first one whose transform raises.
DryRunReach ==
    IF ~skip_errors /\ \E i \in 1..Len(df.rows) : Raises(i)
    THEN 1..(CHOOSE i \in 1..Len(df.rows) : Raises(i) /\ \A j \in 1..(i - 1) : ~Raises(j))
    ELSE 1..Len(df.rows)

InImport == pc \in {"importing", "done"}

C2_HaltsAtFirstError ==
    (InImport /\ ~skip_errors) =>
        \A k \in 1..Len(outcomes) :
            outcomes[k].status = "error" =>
                /\ k = Len(outcomes)
                /\ pc = "done"
                /\ \A j \in 1..Len(submit_calls) : submit_calls[j].row <= outcomes[k].row

\* The outcome a row must get from its own transform and its own result.
OwnStatus(k) ==
    IF Raises(k) THEN "error"
    ELSE IF dry_run THEN "success"
    ELSE LET call == CHOOSE c \in {submit_calls[j] : j \in 1..Len(submit_calls)} : c.row = k
         IN  IF /\ call.result.t = "dict"
                /\ "error" \notin DOMAIN call.result.d
                /\ "data" \in DOMAIN call.result.d
                /\ "appointment" \in DOMAIN call.result.d.data
             THEN "success" ELSE "error"

C4_CountsSumToRows ==
    pc = "done" => success_count + error_count + skipped_count = Len(df.rows)

\* C5: the import loop runs, and create_appointment is called, only for a file
\* on which validate_appointment_csv returned is_valid = true.
C5_NoSubmitForInvalidFile ==
    (InImport \/ submit_calls # <<>>) => validate_appointment_csv(df).is_valid

\* C5 witness: a create_appointment call was made.
C5_Witness == Len(submit_calls) >= 1 /\ validate_appointment_csv(df).is_valid

\* A cell that holds a date-time / a non-negative integer, read as text.
CellIsDateTime(c) == c # <<>> /\ ParseDate(c) # <<>>

CellIsNonNegInt(c) == IsDigitStr(c)

AllRequiredPresent == RequiredSet \subseteq df.columns

\* C6: validate returns is_valid = true only if in every row all four
\* required cells are non-empty, booking_start is a date-time and the three
\* ids are non-negative integers.
C6_ValidOnlyIfWellFormed ==
    (pc # "no_file" /\ is_valid) =>
        /\ AllRequiredPresent
        /\ \A i \in 1..Len(df.rows) :
              /\ CellIsDateTime(df.rows[i]["booking_start"])
              /\ \A k \in 1..Len(IdColumns) : CellIsNonNegInt(df.rows[i][IdColumns[k]])

\* C7: for a file that lacks a required column, validate returns
\* is_valid = false with exactly one error, which names exactly the missing
\* required columns, each once; no row-level error is produced whatever the
\* rows hold.
C7_MissingColumnsShortCircuit ==
    (pc # "no_file" /\ ~AllRequiredPresent) =>
        /\ ~is_valid
        /\ pc = "invalid"
        /\ Len(errors) = 1
        /\ errors[1].text = "Missing required columns"
        /\ errors[1].row_num = 0
        /\ {errors[1].cols[j] : j \in 1..Len(errors[1].cols)} = RequiredSet \ df.columns
        /\ Len(errors[1].cols) = Cardinality(RequiredSet \ df.columns)

\* C7 witness: a file that lacks two or more required columns and has a row
\* whose service_id cell is not numeric.
C7_Witness ==
    /\ pc = "invalid"
    /\ Cardinality(RequiredSet \ df.columns) >= 2
    /\ "service_id" \in df.columns
    /\ \E i \in 1..Len(df.rows) : df.rows[i]["service_id"] = <<"a", "b", "c">>
    /\ Len(errors) = 1

\* The (row number, field) pairs of the file that fail, in row order and
\* within a row in the order booking_start, service_id, provider_id,
\* customer_id; the row number is the data index + 2.
FailingFields(i) ==
    (IF CellIsDateTime(df.rows[i]["booking_start"]) THEN <<>>
     ELSE <<[row_num |-> i + 1, col |-> "booking_start"]>>)
    \o SelectSeq([k \in 1..Len(IdColumns) |-> [row_num |-> i + 1, col |-> IdColumns[k]]],
                 LAMBDA pair : ~CellIsNonNegInt(df.rows[i][pair.col]))

RECURSIVE FailingPairs(_)
FailingPairs(n) == IF n = 0 THEN <<>> ELSE FailingPairs(n - 1) \o FailingFields(n)

\* C8: when all required columns are present, the error list holds exactly
\* one message for each failing (row, field) pair, in row order, naming the
\* row as data index + 2 and the field; other rows contribute nothing.
C8_OneMessagePerFailingPair ==
    (pc # "no_file" /\ AllRequiredPresent) =>
        [e \in 1..Len(errors) |-> [row_num |-> errors[e].row_num, col |-> errors[e].cols[1]]]
            = FailingPairs(Len(df.rows))

\* A dry run of the uploaded file under the current options, from row i on.
RECURSIVE RunImport(_, _, _)
RunImport(st, o, i) ==
    IF st.stop \/ i >= Len(df.rows) THEN st
    ELSE RunImport(ImportRow(st, o, df, i, NoneResult), o, i + 1)

DryRunReport ==
    RunImport(NoReport,
              [dry_run |-> TRUE, skip_errors |-> skip_errors,
               batch_size |-> batch_size, delay_between |-> delay_between], 0)

\* A recognized success: a dict without 'error' whose data has 'appointment'.
IsSuccessResult(r) ==
    /\ r.t = "dict"
    /\ "error" \notin DOMAIN r.d
    /\ "data" \in DOMAIN r.d
    /\ "appointment" \in DOMAIN r.d.data

AllSubmitsSucceeded ==
    \A j \in 1..Len(submit_calls) : IsSuccessResult(submit_calls[j].result)

C10_SubmitOncePerRowInOrder ==
    (InImport /\ ~dry_run) =>
        /\ \A k \in 1..Len(outcomes) : outcomes[k].row = k
        /\ Len(outcomes) <= Len(df.rows)
        /\ idx <= Len(df.rows)
        /\ \A j, l \in 1..Len(submit_calls) : j < l => submit_calls[j].row < submit_calls[l].row
        /\ {submit_calls[j].row : j \in 1..Len(submit_calls)}
               = {k \in 1..Len(outcomes) : ~Raises(k)}
        /\ \A j \in 1..Len(submit_calls) :
               <<submit_calls[j].payload>>
                   = csv_to_appointment_data(RowSeries(df, submit_calls[j].row)).payload

\* C10 witness: a finished live import of two rows whose first row's
\* transform raised and whose second row was submitted.
C10_Witness ==
    /\ pc = "done" /\ ~dry_run /\ Len(outcomes) = 2
    /\ Len(submit_calls) = 1 /\ submit_calls[1].row = 2

\* The entry of errors_list for row k, as a sequence of at most one entry.
ErrorsOfRow(k) == SelectSeq(errors_list, LAMBDA e : e.row = k)

\* C11: every create_appointment result is classified into exactly one
\* outcome: a result with 'error' is an error outcome carrying that message,
\* also when it has 'data'; a result with data.appointment is a success
\* outcome; any other result is an error outcome tagged "Unexpected response
\* format".
C11_ResultClassification ==
    (InImport /\ ~dry_run) =>
        \A j \in 1..Len(submit_calls) :
            LET k == submit_calls[j].row
                r == submit_calls[j].result
            IN  /\ k <= Len(outcomes)
                /\ IF r.t = "dict" /\ "error" \in DOMAIN r.d
                   THEN /\ outcomes[k].status = "error"
                        /\ Len(ErrorsOfRow(k)) = 1
                        /\ ErrorsOfRow(k)[1].error = r.d.error
                   ELSE IF IsSuccessResult(r)
                   THEN outcomes[k].status = "success" /\ ErrorsOfRow(k) = <<>>
                   ELSE /\ outcomes[k].status = "error"
                        /\ Len(ErrorsOfRow(k)) = 1
                        /\ ErrorsOfRow(k)[1].error = "Unexpected response format"

\* The rows of outcomes with the given status, in order.
RowsWithStatus(status) ==
    LET sel == SelectSeq(outcomes, LAMBDA oc : oc.status = status)
    IN  [j \in 1..Len(sel) |-> sel[j].row]

\* error_df: one row per entry of errors_list, with row_number,
\* error_message and the columns of the original row.
ErrorReport ==
    [e \in 1..Len(errors_list) |->
        [row_number |-> errors_list[e].row, error_message |-> errors_list[e].error,
         columns |-> DOMAIN errors_list[e].data]]

C13_PauseAfterEveryBatch ==
    InImport =>
        /\ \A k \in 1..Len(outcomes) :
              (k % batch_size = 0 /\ delay_between > 0 /\ k < Len(outcomes))
                  => \E j \in 1..Len(sleeps) : sleeps[j] = k
        /\ \A j \in 1..Len(sleeps) :
              sleeps[j] % batch_size = 0 /\ delay_between > 0 /\ sleeps[j] <= Len(outcomes)

\* ------------------------------------------- csv_to_appointment_data alone
\* The cells of the row last given to csv_to_appointment_data.
TCells == df.rows[transformed.row]

\* The payload of the last csv_to_appointment_data call that returned.
TPayload == transformed.result.payload[1]

Returned == pc = "transformed" /\ ~transformed.result.raised

\* The integer a numeric cell denotes.
CellIntValue(c) == IntLitVal(IF DotPos(c) = 0 THEN c ELSE SubSeq(c, 1, DotPos(c) - 1))

\* C15: every payload csv_to_appointment_data returns carries exactly one
\* booking, and its customerId is the row's customer_id, whatever other rows
\* of the file share the row's appointment attributes.
C15_OneBookingPerPayload ==
    Returned =>
        /\ Len(TPayload.bookings) = 1
        /\ TPayload.bookings[1].customerId = CellIntValue(TCells["customer_id"])

\* C15 witness: a payload built from the second of two rows that have the
\* same booking_start, service_id, provider_id and customer_id.
C15_Witness ==
    /\ Returned
    /\ transformed.row = 2
    /\ \A k \in 1..Len(RequiredColumns) :
          df.rows[1][RequiredColumns[k]] = df.rows[2][RequiredColumns[k]]

\* The optional value of the column is not supplied in the transformed row:
\* the column is absent or the cell is empty.
Unsupplied(col) == col \notin df.columns \/ TCells[col] = <<>>

\* The required cells of the transformed row are well formed.
ValidRow ==
    /\ CellIsDateTime(TCells["booking_start"])
    /\ \A k \in 1..Len(IdColumns) : CellIsNonNegInt(TCells[IdColumns[k]])

Approved == <<"a", "p", "p", "r", "o", "v", "e", "d">>

\* C16: on a valid row csv_to_appointment_data does not raise, copies the
\* three ids, and sets persons = 1, status = "approved" and
\* notifyParticipants = true for each of these whose column is absent or
\* whose cell is empty.
C16_DefaultsForUnsupplied ==
    (pc = "transformed" /\ ValidRow) =>
        /\ ~transformed.result.raised
        /\ TPayload.serviceId = CellIntValue(TCells["service_id"])
        /\ TPayload.providerId = CellIntValue(TCells["provider_id"])
        /\ TPayload.bookings[1].customerId = CellIntValue(TCells["customer_id"])
        /\ Unsupplied("persons") => TPayload.bookings[1].persons = 1
        /\ Unsupplied("status") => TPayload.bookings[1].status = Approved
        /\ Unsupplied("notify_participants") => TPayload.notifyParticipants = 1

\* C17: the payload includes locationId only when the row has a location_id
\* greater than zero, and the booking includes duration only when the row
\* has a duration greater than zero: a zero is never sent.
C17_NoZeroLocationOrDuration ==
    Returned =>
        /\ TPayload.locationId # <<>> <=>
              (~Unsupplied("location_id") /\ CellIntValue(TCells["location_id"]) > 0)
        /\ TPayload.bookings[1].duration # <<>> <=>
              (~Unsupplied("duration") /\ CellIntValue(TCells["duration"]) > 0)

\* The transformed row as it is without its custom_fields cell.
RowWithoutCustomFields ==
    LET row == RowSeries(df, transformed.row)
    IN  [c \in DOMAIN row \ {"custom_fields"} |-> row[c]]

\* The payload with the customFields key of its booking removed.
WithoutCustomFields(payload) ==
    LET b == payload.bookings[1]
    IN  [payload EXCEPT !.bookings = <<[k \in DOMAIN b \ {"customFields"} |-> b[k]]>>]

\* The JSON value the custom_fields cell of the transformed row holds, as
\* at most one value.
DecodedCell == IF Unsupplied("custom_fields") THEN <<>> ELSE JsonLoads(TCells["custom_fields"])

\* C18: the custom_fields cell never makes csv_to_appointment_data raise; the
\* payload has every other field as the row without that cell gives it; the
\* booking has customFields, equal to the decoded value, exactly when the
\* cell decodes as JSON.
C18_CustomFieldsNeverFail ==
    pc = "transformed" =>
        /\ transformed.result.raised = csv_to_appointment_data(RowWithoutCustomFields).raised
        /\ ~transformed.result.raised =>
              /\ WithoutCustomFields(TPayload)
                     = csv_to_appointment_data(RowWithoutCustomFields).payload[1]
              /\ IF DecodedCell = <<>>
                 THEN "customFields" \notin DOMAIN TPayload.bookings[1]
                 ELSE /\ "customFields" \in DOMAIN TPayload.bookings[1]
                      /\ TPayload.bookings[1].customFields.json = DecodedCell[1].json
                      /\ TPayload.bookings[1].customFields.n = DecodedCell[1].n
                      /\ TPayload.bookings[1].customFields.key = DecodedCell[1].key

\* C18 witness: a payload built from a row whose custom_fields cell is a
\* text that is not JSON.
C18_Witness ==
    /\ Returned
    /\ ~Unsupplied("custom_fields")
    /\ JsonLoads(TCells["custom_fields"]) = <<>>

\* ------------------------------------------------- export and round trip
\* The appointments of the response handed to the export.
Appts == appointments_data.data.appointments

HasAppointments ==
    /\ pc \notin {"no_file", "fetched", "loaded", "transformed"}
    /\ "data" \in DOMAIN appointments_data
    /\ "appointments" \in DOMAIN appointments_data.data

\* The number of bookings of an appointment.
NumBookings(apt) == Len(DictGet(apt, "bookings", <<>>))

\* The sum over the appointments of max(1, number of bookings).
RECURSIVE ExpectedRowCount(_)
ExpectedRowCount(appointments) ==
    IF appointments = <<>> THEN 0
    ELSE (IF NumBookings(Head(appointments)) = 0 THEN 1
          ELSE NumBookings(Head(appointments)))
         + ExpectedRowCount(Tail(appointments))

\* The rows of the export that belong to the appointment.
RowsOfApt(apt) ==
    {i \in 1..Len(exported.rows) : exported.rows[i]["appointment_id"] = apt.id}

\* The rows of the export that belong to the booking.
RowsOfBooking(apt, booking) ==
    {i \in RowsOfApt(apt) :
        "booking_id" \in exported.columns /\ exported.rows[i]["booking_id"] = booking.id}

\* The value is an empty cell of the CSV file: None, NaN or ''.
IsEmpty(v) == v.t \in {"none", "nan"} \/ (v.t = "str" /\ v.s = <<>>)

CustomerAndPaymentColumns ==
    {"booking_id", "customer_id", "customer_name", "customer_first_name",
     "customer_last_name", "customer_email", "customer_phone",
     "payment_status", "payment_gateway", "payment_amount"}

BookingColumns == CustomerAndPaymentColumns \cup {"persons", "price"}

\* One row for each booking of each appointment, one row for each
\* appointment without bookings, and no other row.
OneRowPerPair ==
    /\ Len(exported.rows) = ExpectedRowCount(Appts)
    /\ \A a \in 1..Len(Appts) :
          IF NumBookings(Appts[a]) = 0
          THEN Cardinality(RowsOfApt(Appts[a])) = 1
          ELSE \A j \in 1..NumBookings(Appts[a]) :
                  Cardinality(RowsOfBooking(Appts[a], Appts[a].bookings[j])) = 1

RoundTripPreserves(n) ==
    /\ Len(exported.rows) = n
    /\ pc # "invalid"
    /\ (pc = "done" /\ ~dry_run /\ AllSubmitsSucceeded) =>
          /\ Len(submit_calls) = n
          /\ \A j \in 1..Len(submit_calls) :
                /\ submit_calls[j].row = j
                /\ Len(submit_calls[j].payload.bookings) = 1

\* C20 (as stated): the export of an appointment with N bookings has N rows,
\* and a live import of them in which every call succeeds makes N
\* create_appointment calls, each with one booking.
C20_RoundTripAnyN ==
    (HasAppointments /\ Len(Appts) = 1) => RoundTripPreserves(NumBookings(Appts[1]))

\* C20 (amended): the same for an appointment with at least one booking.
C20_RoundTripWithBookings ==
    (HasAppointments /\ Len(Appts) = 1 /\ NumBookings(Appts[1]) >= 1)
        => RoundTripPreserves(NumBookings(Appts[1]))

\* C20 witness: a finished live import of the export of an appointment with
\* two bookings, every call having succeeded.
C20_Witness ==
    /\ HasAppointments /\ NumBookings(Appts[1]) = 2
    /\ pc = "done" /\ ~dry_run /\ AllSubmitsSucceeded
    /\ Len(submit_calls) = 2

\* ------------------------------------------------------------ API client
MadeRequest == pc = "called" /\ last_call.name = "_make_request"

\* The value is a failure value with a message.
IsFailureValue(v) ==
    /\ v.t = "dict"
    /\ "error" \in DOMAIN v.d
    /\ v.d.error.text # ""

Is2xx(status_code) == status_code >= 200 /\ status_code < 300

\* The server or the transport failed the request.
RequestFailed(b) == b.kind # "response" \/ ~Is2xx(b.status_code)

\* C21: _make_request never raises: for every method, endpoint and body and
\* whatever the server and the transport do it returns a value, and after a
\* non-2xx status, a connection error, a timeout or another request error
\* the value is a failure value with a message.
C21_NeverRaises ==
    MadeRequest =>
        /\ ~last_call.outcome.raised
        /\ (last_call.sent # <<>> /\ RequestFailed(last_call.behaviour))
              => IsFailureValue(last_call.outcome.value)

\* C22: a 2xx response whose body is not JSON gives a failure value, and one
\* that is not the failure value of an HTTP status (it has no status_code).
C22_NonJsonBodyIsFailure ==
    (/\ MadeRequest
     /\ last_call.sent # <<>>
     /\ last_call.behaviour.kind = "response"
     /\ Is2xx(last_call.behaviour.status_code)
     /\ ~last_call.behaviour.body.parses)
        => /\ ~last_call.outcome.raised
           /\ IsFailureValue(last_call.outcome.value)
           /\ "status_code" \notin DOMAIN last_call.outcome.value.d

\* The message the claim gives the failure value of a response: the body's
\* 'message' when the body is a JSON object with that field, otherwise the
\* generic message with the status code.
ExpectedMessage(b) ==
    IF b.body.parses /\ b.body.value.t = "dict" /\ "message" \in DOMAIN b.body.value.d
    THEN [text |-> b.body.value.d.message, code |-> <<>>]
    ELSE [text |-> "HTTP Error: ", code |-> <<b.status_code>>]

\* The call returned the failure value of the response's status.
StatusFailure ==
    /\ ~last_call.outcome.raised
    /\ last_call.outcome.value.t = "dict"
    /\ "error" \in DOMAIN last_call.outcome.value.d
    /\ "status_code" \in DOMAIN last_call.outcome.value.d
    /\ last_call.outcome.value.d.status_code = last_call.behaviour.status_code
    /\ last_call.outcome.value.d.error = ExpectedMessage(last_call.behaviour)

SuccessShaped(r) ==
    /\ ~r.raised
    /\ r.value.t = "dict"
    /\ "data" \in DOMAIN r.value.d
    /\ "error" \notin DOMAIN r.value.d

\* C24: test_connection sends exactly one request, GET categories, never
\* raises, and returns True exactly when the result of that request has
\* 'data' and no 'error'; it returns False for every failure value.
C24_TestConnectionProbe ==
    (pc = "called" /\ last_call.name = "test_connection") =>
        /\ Len(last_call.sent) = 1
        /\ last_call.sent[1].method = "GET"
        /\ last_call.sent[1].url = ApiBase \o <<"/">> \o CategoriesPath
        /\ ~last_call.outcome.raised
        /\ last_call.outcome.value.b = SuccessShaped(last_call.result)
        /\ RequestFailed(last_call.behaviour) /\ IsHttpError(last_call.behaviour.status_code)
              => ~last_call.outcome.value.b
        /\ last_call.behaviour.kind # "response" => ~last_call.outcome.value.b

\* C24 witness: a probe that got a response with 'error' and 'data'-free
\* body at status 200 and returned False.
C24_Witness ==
    /\ pc = "called" /\ last_call.name = "test_connection"
    /\ last_call.behaviour = HttpResponse(200, JsonDocument(ErrorObject))
    /\ ~last_call.outcome.value.b

\* The path an endpoint names: the endpoint without its leading separators.
PathOf(endpoint) ==
    CHOOSE path \in {CategoriesPath, AppointmentPath} :
        endpoint \in {path, <<"/">> \o path, <<"/", "/">> \o path}

\* C25: the URL of a request is the base URL without trailing separators,
\* one separator, and the path without leading separators: it is the same
\* with and without a leading separator of the endpoint and with and without
\* a trailing separator of the configured base URL.
C25_OneSeparatorJoinsUrl ==
    MadeRequest => last_call.url = ApiBase \o <<"/">> \o PathOf(last_call.endpoint)

\* C25 witness: a request with a leading separator in the endpoint, made by
\* a client configured with a trailing separator.
C25_Witness ==
    /\ MadeRequest
    /\ last_call.configured = ApiBase \o <<"/">>
    /\ last_call.endpoint = <<"/">> \o AppointmentPath
    /\ last_call.sent # <<>>

\* C26: on every file that validate_appointment_csv accepts,
\* csv_to_appointment_data raises on no row, so a finished dry run of the
\* file has no error and a success count equal to the number of rows.
C26_ValidatedFileTransforms ==
    (pc \in {"ready", "importing", "done"} /\ is_valid) =>
        /\ \A i \in 1..Len(df.rows) : ~Raises(i)
        /\ (pc = "done" /\ dry_run) =>
              /\ error_count = 0
              /\ success_count = Len(df.rows)

\* ----------------------------------------------------------------- C27
InitRan == pc = "handled" /\ handler.name = "init_api_client"

ProbesOf(events) == SelectSeq(events, LAMBDA e : e.kind = "probe")

SleepsOf(events) == SelectSeq(events, LAMBDA e : e.kind = "sleep")

\* Probes and pauses alternate, starting and ending with a probe.
PausesOnlyBetweenProbes(events) ==
    /\ \A i \in 1..Len(events) : (events[i].kind = "probe") <=> (i % 2 = 1)
    /\ events # <<>> => events[Len(events)].kind = "probe"

SomeProbePassed(events) == \E i \in 1..Len(events) : events[i].kind = "probe" /\ events[i].ok

\* C27: init_api_client makes at most 3 probes, stops at the first probe
\* that passes, pauses between two probes and not after the last one, and
\* sets authenticated together with api_client exactly when a probe passed;
\* a run without a passing probe leaves both as they were, and in every
\* state authenticated implies that api_client is set.
C27_InitProbesAndAuthenticates ==
    /\ session_state.authenticated => session_state.api_client # <<>>
    /\ InitRan =>
          LET probes == ProbesOf(handler.events)
          IN  /\ Len(probes) <= 3
              /\ \A i \in 1..Len(probes) : probes[i].ok => i = Len(probes)
              /\ PausesOnlyBetweenProbes(handler.events)
              /\ handler.returned <=> SomeProbePassed(handler.events)
              /\ session_state.authenticated <=> SomeProbePassed(handler.events)
              /\ SomeProbePassed(handler.events) => session_state.api_client # <<>>
              /\ ~SomeProbePassed(handler.events) =>
                    /\ session_state.api_client = handler.before.api_client
                    /\ session_state.authenticated = handler.before.authenticated

\* The third probe passes after two that failed, with a pause after each.
C27_Witness ==
    /\ InitRan
    /\ Len(ProbesOf(handler.events)) = 3
    /\ Len(SleepsOf(handler.events)) = 2
    /\ session_state.authenticated
    /\ session_state.api_client # <<>>

\* ----------------------------------------------------------------- C28
\* The last n entries of a sequence (all of them when it has fewer).
LastEntries(seq, n) ==
    IF Len(seq) <= n THEN seq ELSE SubSeq(seq, Len(seq) - n + 1, Len(seq))

\* C28: after any number of log_operation calls the operation log has at
\* most 100 entries, and they are the most recent min(n, 100) entries
\* logged, in the order they were logged.
C28_LogKeepsLast100 ==
    /\ Len(session_state.operation_log) <= 100
    /\ session_state.operation_log = LastEntries(logged, 100)

\* More than 100 calls were made and the oldest entries are gone.
C28_Witness ==
    /\ Len(logged) > 100
    /\ Len(session_state.operation_log) = 100
    /\ session_state.operation_log[1] # logged[1]

\* ----------------------------------------------------------------- C29
RefreshRan == pc = "handled" /\ handler.name = "refresh"

\* What the k-th fetch of the refresh returns for the server's answer.
FetchResult(k) == make_request("GET", NoBody, handler.behaviours[k]).value

FetchHasData(k) == FetchResult(k).t = "dict" /\ "data" \in DOMAIN FetchResult(k).d

\* The k-th fetch of the refresh was made (an earlier one did not raise).
FetchMade(k) == k <= handler.fetched

\* C29: a refresh replaces a cache only when its own fetch returned a
\* result containing 'data', and then by that result; a fetch that failed
\* leaves its cache as it was and changes neither of the other two caches.
C29_CacheReplacedOnlyByOwnData ==
    RefreshRan =>
        \A k \in 1..Len(CacheNames) :
            LET cache == session_state[CacheNames[k]]
                previous == handler.before[CacheNames[k]]
            IN  /\ cache # previous => FetchMade(k) /\ FetchHasData(k)
                /\ FetchMade(k) /\ FetchHasData(k) => cache = <<FetchResult(k)>>
                /\ ~FetchHasData(k) => cache = previous

\* The customers fetch timed out between two fetches that returned data:
\* the customers cache keeps its listing, the other two are replaced.
C29_Witness ==
    /\ RefreshRan
    /\ handler.fetched = 3
    /\ FetchHasData(1) /\ ~FetchHasData(2) /\ FetchHasData(3)
    /\ handler.before.customers_cache # <<>>
    /\ session_state.customers_cache = handler.before.customers_cache
    /\ session_state.appointments_cache # handler.before.appointments_cache
    /\ session_state.services_cache # handler.before.services_cache

\* ----------------------------------------------------------------- C30
BulkRan == pc = "handled" /\ handler.name \in {"bulk_update", "bulk_delete"} /\ handler.ran

\* C30: a bulk status update and a bulk delete make one attempt for every
\* listed id, in list order, whatever the earlier attempts returned, and
\* at the end success count + error count is the number of ids.
C30_BulkAttemptsEveryId ==
    BulkRan =>
        /\ handler.attempts = IdsOf(handler.text)
        /\ handler.success_count + handler.error_count = Len(IdsOf(handler.text))

\* Two ids were listed for a status update; the first attempt failed and is
\* in the error list, the second succeeded.
C30_Witness ==
    /\ BulkRan
    /\ handler.name = "bulk_update"
    /\ Len(handler.attempts) = 2
    /\ Len(handler.errors_list) = 1
    /\ handler.errors_list[1].id = handler.attempts[1]
    /\ handler.success_count = 1

====
